---- MODULE Spec2Model ----
(***************************************************************************)
(* A model of go-crud (crud-bench in Go): the key generator                *)
(* (internal/generators/key.go) and the benchmark runner                   *)
(* (internal/benchmark/benchmark.go, runner.go) driving an abstract        *)
(* Adapter through Initialize, the five phases and Cleanup.                *)
(***************************************************************************)
EXTENDS Integers, Sequences, FiniteSets, TLC

(***************************************************************************)
(* Bounds of the model.                                                    *)
(***************************************************************************)
\* largest Config.Samples of a run
MaxSamples == 3
\* largest Config.Clients of a run
MaxClients == 2
\* largest Config.Threads of a run
MaxThreads == 2
\* largest len(Config.Scans) of a run
MaxScans == 2
\* number of distinguishable outcomes of one random string / uuid draw
MaxDraws == 2
\* largest count given to GenerateKeys on its own for sequential integer keys
MaxSeqCount == 12
\* most calls of Adapter.Cleanup on one adapter
MaxCleanups == 2
\* most calls of Container.Stop made directly on one container
MaxStops == 2
\* most rows of the table a scan reads
MaxRows == 4
\* most records rendered from one value template
MaxRecords == 2
\* largest length given to RandomText
MaxText == 6
\* longest timeout given to WaitForHealthy, in clock steps
MaxTimeout == 2
\* last instant of the clock
MaxClock == 4
\* resolution of the wall clock of two concurrent runs: ticks in a second
TicksPerSecond == 2
\* last tick of that wall clock
MaxNow == 5

VARIABLES
    cfg,        \* Runner.Config
    adapter,    \* the Adapter's lifecycle: state and calls of Initialize, Cleanup
    ctxDone,    \* the context given to Run has been cancelled
    pc,         \* where Runner.Run is
    keys,       \* the local `keys` of the phase function that ran last
    wpc,        \* per CRUD phase and worker: where the goroutine is
    wi,         \* per CRUD phase and worker: the loop variable i
    errCh,      \* the buffered error channel of the phase that ran last
    scanIdx,    \* runScans: position of the range over Config.Scans, from 1
    Results,    \* Runner.Results
    ret,        \* what Run returned: results and error
    issued,     \* history: per CRUD phase and index, adapter calls started
    created,    \* history: the keys passed to Adapter.Create
    okOps,      \* history: per phase, adapter calls that returned nil
    errOps,     \* history: per phase, adapter calls that returned an error
    gen,        \* a caller of GenerateKeys on its own: inputs and last results
    proc,       \* the process: its exit status and the result file it wrote
    scan,       \* a caller of Adapter.Scan on its own: table, inputs and result
    val,        \* a caller of the value generators on its own
    ctr         \* a caller of the container helpers on its own

runVars == <<cfg, adapter, ctxDone, pc, keys, wpc, wi, errCh, scanIdx, Results,
             ret, issued, created, okOps, errOps, proc, scan, val, ctr>>
vars == <<cfg, adapter, ctxDone, pc, keys, wpc, wi, errCh, scanIdx, Results,
          ret, issued, created, okOps, errOps, gen, proc, scan, val, ctr>>

(***************************************************************************)
(* internal/config/config.go                                               *)
(***************************************************************************)
ValidKeyTypes == {"integer", "string26", "string90", "string250", "string506", "uuid"}

ValidDatabases ==
    {"dry", "map", "arangodb", "dragonfly", "fjall", "keydb", "lmdb", "mongodb",
     "mysql", "neo4j", "postgres", "redb", "redis", "rocksdb", "scylladb", "sqlite",
     "surrealkv", "surrealdb", "surrealdb-memory", "surrealdb-rocksdb",
     "surrealdb-surrealkv"}

\* Config.Validate: the error it returns, or nil
Validate(c) ==
    IF c.Database = "" THEN "database is required"
    ELSE IF c.Samples <= 0 THEN "samples must be greater than 0"
    ELSE IF c.KeyType \notin ValidKeyTypes THEN "invalid key type"
    ELSE IF c.Database \notin ValidDatabases THEN "invalid database"
    ELSE "nil"

\* internal/databases/factory.go: NewAdapter knows these database types
FactoryDatabases == {"mysql", "postgres"}

(***************************************************************************)
(* internal/generators/key.go, value.go: keys                              *)
(***************************************************************************)
Digits == <<"0", "1", "2", "3", "4", "5", "6", "7", "8", "9">>

\* strconv.Itoa for an index >= 0: the decimal digits, most significant first
RECURSIVE Itoa(_)
Itoa(n) ==
    IF n < 10 THEN <<Digits[n + 1]>>
    ELSE Itoa(n \div 10) \o <<Digits[(n % 10) + 1]>>

\* RandomString(length): length bytes, each drawn from the charset by
\* rand.Intn. The bytes are abstracted to which of MaxDraws outcomes was
\* drawn: two strings are equal iff length and outcome agree.
RandomString(length) == {[len |-> length, bytes |-> d] : d \in 1..MaxDraws}

\* uuid.New().String(): 36 characters from random bits, abstracted alike
UUIDLen == 36
NewUUID == {[len |-> UUIDLen, bytes |-> d] : d \in 1..MaxDraws}

\* NewKeyGenerator: the generator for a key type, or an error
NewKeyGenerator(keyType) ==
    CASE keyType = "integer"   -> [err |-> "nil", kind |-> "integer", Length |-> 0]
      [] keyType = "string26"  -> [err |-> "nil", kind |-> "string", Length |-> 26]
      [] keyType = "string90"  -> [err |-> "nil", kind |-> "string", Length |-> 90]
      [] keyType = "string250" -> [err |-> "nil", kind |-> "string", Length |-> 250]
      [] keyType = "string506" -> [err |-> "nil", kind |-> "string", Length |-> 506]
      [] keyType = "uuid"      -> [err |-> "nil", kind |-> "uuid", Length |-> 0]
      [] OTHER                 -> [err |-> "unsupported key type", kind |-> "none", Length |-> 0]

\* KeyGenerator.Generate(index): the keys one call can return
Generate(g, index) ==
    CASE g.kind = "integer" -> {Itoa(index)}
      [] g.kind = "string"  -> RandomString(g.Length)
      [] g.kind = "uuid"    -> NewUUID

\* a swap that overwrites indices[i] and keeps indices[j]
SwapLost(s, i, j) == [s EXCEPT ![i + 1] = s[j + 1]]
\* the swap closure given to rand.Shuffle; indices are 0-based in the code
Swap(s, i, j) == [s EXCEPT ![i + 1] = s[j + 1], ![j + 1] = s[i + 1]]

\* rand.Shuffle(n, swap): for i := n-1; i > 0; i-- { j := rand.Intn(i+1); swap(i, j) }
\* every sequence some choice of the j's yields
RECURSIVE ShuffleFrom(_, _)
ShuffleFrom(s, i) ==
    IF i <= 0 THEN {s}
    ELSE UNION {ShuffleFrom(Swap(s, i, j), i - 1) : j \in 0..i}

Shuffle(n, s) == ShuffleFrom(s, n - 1)

\* the loop keys[i] = generator.Generate(indices[i]) for i < n
RECURSIVE GenerateLoop(_, _, _)
GenerateLoop(g, indices, n) ==
    IF n = 0 THEN {<<>>}
    ELSE {Append(ks, k) : ks \in GenerateLoop(g, indices, n - 1),
                          k \in Generate(g, indices[n])}

\* GenerateKeys(keyType, count, random): every (indices, keys, err) it can
\* end with
GenerateKeys(keyType, count, random) ==
    LET generator == NewKeyGenerator(keyType)
        sequential == [i \in 1..count |-> i - 1]
        shuffled == IF random THEN Shuffle(count, sequential) ELSE {sequential}
    IN  IF generator.err # "nil"
        THEN {[indices |-> <<>>, keys |-> <<>>, err |-> generator.err]}
        ELSE UNION {{[indices |-> ind, keys |-> ks, err |-> "nil"] :
                        ks \in GenerateLoop(generator, ind, count)} :
                    ind \in shuffled}

(***************************************************************************)
(* A caller of GenerateKeys on its own: it calls GenerateKeys and keeps    *)
(* the result; for sequential order it calls again with the same           *)
(* arguments and keeps both results.                                       *)
(***************************************************************************)
GenIdle ==
    [keyType |-> "integer", count |-> 0, random |-> FALSE, calls |-> 0,
     indices |-> <<>>, keys |-> <<>>, prevKeys |-> <<>>, err |-> "nil"]

GenInputs ==
    {[keyType |-> k, count |-> n, random |-> r] :
        k \in ValidKeyTypes \cup {"float"}, n \in 0..MaxSamples, r \in BOOLEAN}
    \cup {[keyType |-> "integer", count |-> n, random |-> FALSE] : n \in 0..MaxSeqCount}

GenerateKeysCall ==
    /\ pc.at = "off"
    /\ gen.calls = 0 \/ (gen.calls = 1 /\ ~gen.random)
    /\ \E r \in GenerateKeys(gen.keyType, gen.count, gen.random) :
          gen' = [gen EXCEPT !.calls = @ + 1, !.prevKeys = gen.keys,
                             !.indices = r.indices, !.keys = r.keys, !.err = r.err]
    /\ UNCHANGED runVars

(***************************************************************************)
(* internal/benchmark/benchmark.go: operations, results, the adapter       *)
(***************************************************************************)
OperationCreate == "CREATE"
OperationRead == "READ"
OperationUpdate == "UPDATE"
OperationDelete == "DELETE"
OperationScan == "SCAN"

\* the phases in the order Run calls them, and the four with a worker pool
Phases == <<OperationCreate, OperationRead, OperationUpdate, OperationScan, OperationDelete>>
CrudPhases == {OperationCreate, OperationRead, OperationUpdate, OperationDelete}
AllPhases == {Phases[k] : k \in 1..Len(Phases)}

\* error values: nil, an adapter error wrapped by the runner, ctx.Err()
Nil == [kind |-> "nil", phase |-> "", i |-> -1]
OpError(p, i) == [kind |-> "backend", phase |-> p, i |-> i]
CtxError(p) == [kind |-> "ctx", phase |-> p, i |-> -1]
SetupError == [kind |-> "setup", phase |-> "", i |-> -1]
ExpectError(k) == [kind |-> "expect", phase |-> OperationScan, i |-> k]
KeysError(p) == [kind |-> "keys", phase |-> p, i |-> -1]
TemplateError(p) == [kind |-> "template", phase |-> p, i |-> -1]
\* not an error value: the mark of a phase function that panicked
PanicError(p) == [kind |-> "panic", phase |-> p, i |-> -1]

\* the Result record; Duration is left out (time is not modelled)
Result(op, name, count) == [Operation |-> op, Name |-> name, Error |-> Nil, Count |-> count]

ResultName(p) ==
    CASE p = OperationCreate -> "create_all"
      [] p = OperationRead   -> "read_all"
      [] p = OperationUpdate -> "update_all"
      [] p = OperationDelete -> "delete_all"

(***************************************************************************)
(* The configurations of a run.                                            *)
(***************************************************************************)
ScanNames == <<"count_all", "limit_id", "limit_full", "start_id">>

\* the k-th scan specification: odd ones expect nothing (expect 0 or, for
\* every other one of them, a negative expect), even ones expect exactly
\* one row
ScanConfig(k) ==
    [Name |-> ScanNames[((k - 1) % Len(ScanNames)) + 1],
     Expect |-> IF k % 2 = 0 THEN 1 ELSE IF k % 4 = 1 THEN 0 ELSE -1]

\* Config.Value: a text that parses as a JSON object, or one that does not
Values == {"json", "notjson"}

\* the key types of the modelled runs: one of each kind of generator
RunKeyTypes == {"integer", "string26", "uuid"}

Configs ==
    {[Database |-> "mysql", Samples |-> n, Clients |-> c, Threads |-> t,
      KeyType |-> k, Random |-> r, Value |-> v,
      Scans |-> [j \in 1..m |-> ScanConfig(j)]] :
        n \in 1..MaxSamples, c \in 1..MaxClients, t \in 1..MaxThreads,
        k \in RunKeyTypes, r \in BOOLEAN, v \in Values, m \in 0..MaxScans}

NoConfig ==
    [Database |-> "", Samples |-> 0, Clients |-> 0, Threads |-> 0,
     KeyType |-> "integer", Random |-> FALSE, Value |-> "json", Scans |-> <<>>]

\* command lines that do not lead to a run: no database, no samples, a key
\* type or a database that is not valid, a valid database without an adapter
DefaultConfig ==
    [Database |-> "mysql", Samples |-> 1, Clients |-> 1, Threads |-> 1,
     KeyType |-> "integer", Random |-> FALSE, Value |-> "json", Scans |-> <<>>]

RejectedConfigs ==
    {[DefaultConfig EXCEPT !.Database = ""],
     [DefaultConfig EXCEPT !.Samples = 0],
     [DefaultConfig EXCEPT !.KeyType = "float"],
     [DefaultConfig EXCEPT !.Database = "oracle"],
     [DefaultConfig EXCEPT !.Database = "sqlite"]}

\* command lines that Validate and the factory accept although a count of
\* clients or threads is zero
ZeroWorkerConfigs ==
    {[DefaultConfig EXCEPT !.Clients = 0],
     [DefaultConfig EXCEPT !.Threads = 0],
     [DefaultConfig EXCEPT !.Clients = 0, !.Samples = 2, !.Value = "notjson"]}

\* the (clientID, threadID) pairs the two nested loops of a phase launch
Workers == (0..(cfg.Clients - 1)) \X (0..(cfg.Threads - 1))

(***************************************************************************)
(* internal/benchmark/runner.go: partitioning                              *)
(***************************************************************************)
\* a batch size that is left at zero when there are more workers than samples
batchSizeFloor == cfg.Samples \div (cfg.Clients * cfg.Threads)
\* batchSize := Samples / (Clients * Threads); if batchSize == 0 { batchSize = 1 }
batchSize ==
    LET b == cfg.Samples \div (cfg.Clients * cfg.Threads)
    IN  IF b = 0 THEN 1 ELSE b

\* start := (clientID*Threads + threadID) * batchSize
start(w) == (w[1] * cfg.Threads + w[2]) * batchSize

\* end := start + batchSize; if end > Samples { end = Samples }
end(w) ==
    IF start(w) + batchSize > cfg.Samples THEN cfg.Samples ELSE start(w) + batchSize

\* generators.ProcessTemplate(Config.Value): json.Unmarshal fails or not
ProcessTemplate(value) == IF value = "json" THEN "nil" ELSE "invalid JSON template"

(***************************************************************************)
(* internal/generators/value.go: values                                    *)
(*                                                                         *)
(* A leaf of a template is a record with a type. A "literal" is a string   *)
(* of the template text: head and form tell which of "int", "int:A..B",    *)
(* "string:A", "string:A..B", "text:A", "text:A..B" or another text it is. *)
(* A "random" leaf is a string RandomString made (taken not to spell a     *)
(* directive), a "text" leaf one RandomText made, an "int" leaf a number.  *)
(***************************************************************************)
Literal(head, form, a, b) ==
    [type |-> "literal", head |-> head, form |-> form, a |-> a, b |-> b]

Panic == [type |-> "panic"]

\* wordLen := 2 + rand.Intn(9)
MinWordLen == 2
WordLenChoices == 9

\* RandomText(length): the word lengths of every text it can return, in
\* order; words holds the lengths so far, currentLength the loop's counter
RECURSIVE RandomTextFrom(_, _, _)
RandomTextFrom(length, currentLength, words) ==
    IF ~(currentLength < length) THEN {words}
    ELSE UNION {LET cut == currentLength + (MinWordLen + r) + 1 > length
                    wordLen == IF cut THEN length - currentLength ELSE MinWordLen + r
                IN  IF cut /\ wordLen <= 0 THEN {words}
                    ELSE RandomTextFrom(length, currentLength + wordLen + 1,
                                        Append(words, wordLen)) :
                r \in 0..(WordLenChoices - 1)}

RandomText(length) == RandomTextFrom(length, 0, <<>>)

RECURSIVE SumSeq(_)
SumSeq(q) == IF Len(q) = 0 THEN 0 ELSE Head(q) + SumSeq(Tail(q))

\* len(strings.Join(words, " "))
JoinLen(words) == IF Len(words) = 0 THEN 0 ELSE SumSeq(words) + Len(words) - 1

\* the regular expressions are not anchored: string:(\d+) also matches
\* "string:A..B", text:(\d+) also matches "text:A..B"
intRangeRegex(t) == t.head = "int" /\ t.form = "range"
stringRegex(t) == t.head = "string" /\ t.form \in {"n", "range"}
stringRangeRegex(t) == t.head = "string" /\ t.form = "range"
textRegex(t) == t.head = "text" /\ t.form \in {"n", "range"}
textRangeRegex(t) == t.head = "text" /\ t.form = "range"

\* rand.Intn(n) panics if n <= 0
Intn(n) == IF n <= 0 THEN {Panic} ELSE {[type |-> "int", n |-> k] : k \in 0..(n - 1)}

\* min + rand.Intn(max-min+1)
DrawRange(min, max) ==
    {IF r = Panic THEN Panic ELSE [type |-> "int", n |-> min + r.n] :
        r \in Intn(max - min + 1)}

\* ParseValue(template): every value the switch can return for a string
\* (the float, bool, uuid, datetime and enum cases are not among the
\* templates of the model)
ParseValue(t) ==
    IF t.type # "literal" THEN {t}
    ELSE CASE t.head = "int" /\ t.form = "bare" ->
                {[type |-> "int", n |-> d] : d \in 1..MaxDraws}
           [] intRangeRegex(t) -> DrawRange(t.a, t.b)
           [] stringRegex(t) ->
                {[type |-> "random", s |-> x] : x \in RandomString(t.a)}
           [] stringRangeRegex(t) ->
                UNION {IF l = Panic THEN {Panic}
                       ELSE {[type |-> "random", s |-> x] : x \in RandomString(l.n)} :
                       l \in DrawRange(t.a, t.b)}
           [] textRegex(t) ->
                {[type |-> "text", words |-> w] : w \in RandomText(t.a)}
           [] textRangeRegex(t) ->
                UNION {IF l = Panic THEN {Panic}
                       ELSE {[type |-> "text", words |-> w] : w \in RandomText(l.n)} :
                       l \in DrawRange(t.a, t.b)}
           [] OTHER -> {t}

\* ProcessValue(v) for a leaf: a string goes through ParseValue, any other
\* value is returned as it is
ProcessValue(v) ==
    IF v.type \in {"literal", "random", "text"} THEN ParseValue(v) ELSE {v}

\* ProcessValue(data) for the object of a template: every leaf replaced;
\* panic if a leaf panics
ProcessFields(fields) ==
    LET outs == UNION {ProcessValue(fields[k]) : k \in DOMAIN fields}
        all == {f \in [DOMAIN fields -> outs] :
                   \A k \in DOMAIN fields : f[k] \in ProcessValue(fields[k])}
    IN  {IF \E k \in DOMAIN f : f[k] = Panic
         THEN [panic |-> TRUE, data |-> <<>>]
         ELSE [panic |-> FALSE, data |-> f] : f \in all}

\* ProcessTemplate(template) in full: json.Unmarshal, then ProcessValue(data)
\* on the parsed object, which is returned
ProcessTemplateData(template) ==
    IF ~template.json
    THEN {[data |-> <<>>, err |-> "invalid JSON template", panic |-> FALSE]}
    ELSE {[data |-> d.data, err |-> "nil", panic |-> d.panic] :
          d \in ProcessFields(template.fields)}

\* the value templates of the model: one or two leaves, or not JSON
Template(fields) == [json |-> TRUE, fields |-> fields]
NotJSON == [json |-> FALSE, fields |-> <<>>]

Leaves ==
    {Literal("int", "bare", 0, 0), Literal("plain", "bare", 0, 0),
     Literal("string", "n", 2, 0), Literal("text", "n", 3, 0),
     Literal("int", "range", 1, 2), Literal("int", "range", 2, 1),
     Literal("int", "range", 3, 1), Literal("string", "range", 2, 1),
     Literal("string", "range", 1, 2), Literal("text", "range", 3, 1),
     [type |-> "int", n |-> 7]}

Templates ==
    {NotJSON} \cup {Template(<<l>>) : l \in Leaves}
    \cup {Template(<<Literal("int", "bare", 0, 0), l>>) : l \in Leaves}

\* a caller of the value generators: it processes a template and renders
\* records from it as runCreate and runUpdate do, or it calls RandomText
NoVal ==
    [call |-> "none", template |-> NotJSON, at |-> "start", valueTemplate |-> <<>>,
     err |-> "nil", records |-> <<>>, length |-> 0, words |-> <<>>,
     kinds |-> <<>>, wr |-> <<>>, fatal |-> FALSE]

ValInputs ==
    {[NoVal EXCEPT !.call = "template", !.template = t] : t \in Templates}
    \cup {[NoVal EXCEPT !.call = "text", !.length = n] : n \in 0..MaxText}

\* valueTemplate, err := generators.ProcessTemplate(r.Config.Value)
ProcessTemplateCall ==
    /\ pc.at = "off"
    /\ val.call = "template"
    /\ val.at = "start"
    /\ \E r \in ProcessTemplateData(val.template) :
          val' = [val EXCEPT !.at = IF r.panic THEN "panicked"
                                   ELSE IF r.err # "nil" THEN "failed"
                                   ELSE "templated",
                            !.valueTemplate = r.data,
                            !.err = r.err]
    /\ UNCHANGED <<cfg, adapter, ctxDone, pc, keys, wpc, wi, errCh, scanIdx, Results,
                   ret, issued, created, okOps, errOps, gen, proc, scan, ctr>>

\* value := make(map...); for k, v := range valueTemplate
\*     { value[k] = generators.ProcessValue(v) }
RenderRecord ==
    /\ pc.at = "off"
    /\ val.at = "templated"
    /\ Len(val.records) < MaxRecords
    /\ \E value \in ProcessFields(val.valueTemplate) :
          val' = IF value.panic THEN [val EXCEPT !.at = "panicked"]
                 ELSE [val EXCEPT !.records = Append(@, value.data)]
    /\ UNCHANGED <<cfg, adapter, ctxDone, pc, keys, wpc, wi, errCh, scanIdx, Results,
                   ret, issued, created, okOps, errOps, gen, proc, scan, ctr>>

RandomTextCall ==
    /\ pc.at = "off"
    /\ val.call = "text"
    /\ val.at = "start"
    /\ \E w \in RandomText(val.length) :
          val' = [val EXCEPT !.at = "returned", !.words = w]
    /\ UNCHANGED <<cfg, adapter, ctxDone, pc, keys, wpc, wi, errCh, scanIdx, Results,
                   ret, issued, created, okOps, errOps, gen, proc, scan, ctr>>

(***************************************************************************)
(* runner.go, value.go: the goroutines of a create or update phase         *)
(* rendering values from the one valueTemplate they all captured. A        *)
(* top-level field of the template is a "leaf" (string, number), a nested  *)
(* "map" or a nested "array"; the nested objects belong to the template.   *)
(***************************************************************************)
TemplateKinds ==
    {<<"leaf">>, <<"map">>, <<"array">>, <<"leaf", "map">>, <<"map", "leaf">>,
     <<"array", "map">>, <<"leaf", "leaf">>}

RenderWorkers == 1..MaxClients

RenderInputs ==
    {[NoVal EXCEPT !.call = "render", !.kinds = t,
                   !.wr = [w \in RenderWorkers |-> [rec |-> 0, k |-> 1, at |-> "range"]]] :
        t \in TemplateKinds}

\* for k, v := range valueTemplate: the next field, or the next record
NextField(val0, w) ==
    IF val0.wr[w].k < Len(val0.kinds)
    THEN [val0 EXCEPT !.wr[w].k = @ + 1, !.wr[w].at = "range"]
    ELSE [val0 EXCEPT !.wr[w].k = 1, !.wr[w].rec = @ + 1, !.wr[w].at = "range"]

\* the goroutines that are storing into nested object k of the template
Writers(k) == {w \in RenderWorkers : val.wr[w].at = "write" /\ val.wr[w].k = k}

\* value[k] = generators.ProcessValue(v): a leaf is returned and stored in
\* the goroutine's own map; for a map or an array ProcessValue stores every
\* element back into v itself, val[k] = ProcessValue(v), which is the
\* template's object. Two goroutines storing into one map at once is a data
\* race: the runtime may end the process (fatal error: concurrent map
\* writes) or not notice.
RenderField ==
    /\ pc.at = "off"
    /\ val.call = "render"
    /\ ~val.fatal
    /\ \E w \in RenderWorkers :
          /\ val.wr[w].at = "range"
          /\ val.wr[w].rec < MaxRecords
          /\ IF val.kinds[val.wr[w].k] = "leaf"
             THEN val' = NextField(val, w)
             ELSE \E fatal \in BOOLEAN :
                     /\ fatal => val.kinds[val.wr[w].k] = "map" /\ Writers(val.wr[w].k) # {}
                     /\ val' = [val EXCEPT !.wr[w].at = "write", !.fatal = fatal]
    /\ UNCHANGED <<cfg, adapter, ctxDone, pc, keys, wpc, wi, errCh, scanIdx, Results,
                   ret, issued, created, okOps, errOps, gen, proc, scan, ctr>>

\* return val: ProcessValue has stored the last element of the nested object
RenderStored ==
    /\ pc.at = "off"
    /\ val.call = "render"
    /\ ~val.fatal
    /\ \E w \in RenderWorkers :
          /\ val.wr[w].at = "write"
          /\ val' = NextField(val, w)
    /\ UNCHANGED <<cfg, adapter, ctxDone, pc, keys, wpc, wi, errCh, scanIdx, Results,
                   ret, issued, created, okOps, errOps, gen, proc, scan, ctr>>

(***************************************************************************)
(* internal/docker/container.go: WaitForHealthy step by step, under a      *)
(* clock; internal/dbutils: CreateContainerWithRetry                       *)
(***************************************************************************)
NoCtr ==
    [call |-> "none", at |-> "start", now |-> 0, timeout |-> 0, deadline |-> 0,
     checkFunc |-> FALSE, head |-> 0, probes |-> <<>>, ret |-> "none",
     starts |-> <<>>, pulls |-> <<>>, containers |-> 0,
     backends |-> <<>>, names |-> <<>>]

CtrInputs ==
    {[NoCtr EXCEPT !.call = "health", !.timeout = t, !.checkFunc = f] :
        t \in 1..MaxTimeout, f \in BOOLEAN}
    \cup {[NoCtr EXCEPT !.call = "retry"]}

\* time passes between any two steps of the program
Tick ==
    /\ ctr.call = "health"
    /\ ctr.at # "returned"
    /\ ctr.now < MaxClock - 1
    /\ ctr' = [ctr EXCEPT !.now = @ + 1]
    /\ UNCHANGED <<cfg, adapter, ctxDone, pc, keys, wpc, wi, errCh, scanIdx, Results,
                   ret, issued, created, okOps, errOps, gen, proc, scan, val>>

\* deadline := time.Now().Add(timeout)
WaitStart ==
    /\ ctr.call = "health"
    /\ ctr.at = "start"
    /\ ctr' = [ctr EXCEPT !.deadline = ctr.now + ctr.timeout, !.at = "for"]
    /\ UNCHANGED <<cfg, adapter, ctxDone, pc, keys, wpc, wi, errCh, scanIdx, Results,
                   ret, issued, created, okOps, errOps, gen, proc, scan, val>>

\* a deadline check that lets the loop run at the deadline itself
NotAfter(t, deadline) == t <= deadline
\* time.Now().Before(deadline)
Before(t, deadline) == t < deadline

\* for time.Now().Before(deadline) { ... }; return fmt.Errorf("... timed out")
WaitLoop ==
    /\ ctr.call = "health"
    /\ ctr.at = "for"
    /\ ctr' = IF Before(ctr.now, ctr.deadline)
              THEN [ctr EXCEPT !.at = "inspect", !.head = ctr.now]
              ELSE [ctr EXCEPT !.at = "returned", !.head = ctr.now,
                               !.ret = "container health check timed out"]
    /\ UNCHANGED <<cfg, adapter, ctxDone, pc, keys, wpc, wi, errCh, scanIdx, Results,
                   ret, issued, created, okOps, errOps, gen, proc, scan, val>>

\* inspect, err := c.Client.ContainerInspect(ctx, c.ID) and the two returns
\* that follow it; if checkFunc != nil
WaitInspect ==
    /\ ctr.call = "health"
    /\ ctr.at = "inspect"
    /\ \/ ctr' = [ctr EXCEPT !.at = "returned", !.ret = "failed to inspect container"]
       \/ ctr' = [ctr EXCEPT !.at = "returned", !.ret = "container is not running"]
       \/ ctr' = [ctr EXCEPT !.at = IF ctr.checkFunc THEN "check" ELSE "sleep"]
    /\ UNCHANGED <<cfg, adapter, ctxDone, pc, keys, wpc, wi, errCh, scanIdx, Results,
                   ret, issued, created, okOps, errOps, gen, proc, scan, val>>

\* if err := checkFunc(ctx); err == nil { return nil }
WaitCheck ==
    /\ ctr.call = "health"
    /\ ctr.at = "check"
    /\ \E ok \in BOOLEAN :
          ctr' = [ctr EXCEPT
                    !.probes = Append(@, [time |-> ctr.now, head |-> ctr.head, ok |-> ok]),
                    !.at = IF ok THEN "returned" ELSE "sleep",
                    !.ret = IF ok THEN "nil" ELSE @]
    /\ UNCHANGED <<cfg, adapter, ctxDone, pc, keys, wpc, wi, errCh, scanIdx, Results,
                   ret, issued, created, okOps, errOps, gen, proc, scan, val>>

\* time.Sleep(500 * time.Millisecond)
WaitSleep ==
    /\ ctr.call = "health"
    /\ ctr.at = "sleep"
    /\ ctr' = [ctr EXCEPT !.now = @ + 1, !.at = "for"]
    /\ UNCHANGED <<cfg, adapter, ctxDone, pc, keys, wpc, wi, errCh, scanIdx, Results,
                   ret, issued, created, okOps, errOps, gen, proc, scan, val>>

\* if _, err := EnsureDockerImage(imageName); err != nil { return nil, err }
EnsureDockerImage ==
    /\ ctr.call = "retry"
    /\ ctr.at = "start"
    /\ \/ ctr' = [ctr EXCEPT !.at = "new"]
       \/ ctr' = [ctr EXCEPT !.at = "returned", !.ret = "failed to pull Docker image"]
    /\ UNCHANGED <<cfg, adapter, ctxDone, pc, keys, wpc, wi, errCh, scanIdx, Results,
                   ret, issued, created, okOps, errOps, gen, proc, scan, val>>

\* container, err := docker.NewContainer(...), before either Start
RetryNewContainer ==
    /\ ctr.call = "retry"
    /\ ctr.at = "new"
    /\ \/ ctr' = [ctr EXCEPT !.at = "Start", !.containers = @ + 1]
       \/ ctr' = [ctr EXCEPT !.at = "returned",
                             !.ret = IF ctr.containers = 0
                                     THEN "failed to create container"
                                     ELSE "failed to create container after image pull"]
    /\ UNCHANGED <<cfg, adapter, ctxDone, pc, keys, wpc, wi, errCh, scanIdx, Results,
                   ret, issued, created, okOps, errOps, gen, proc, scan, val>>

StartErrors == {"No such image", "port is already allocated"}

\* a retry after any failure of Start
AnyStartError(err) == TRUE
\* strings.Contains(err.Error(), "No such image")
MissingImage(err) == err = "No such image"

\* if err := container.Start(ctx); err != nil { ... }: the first Start and,
\* after a manual pull, the second
RetryStart ==
    /\ ctr.call = "retry"
    /\ ctr.at = "Start"
    /\ \E err \in {"nil"} \cup StartErrors :
          ctr' = [ctr EXCEPT
                    !.starts = Append(@, err),
                    !.at = IF err = "nil" THEN "returned"
                           ELSE IF Len(ctr.starts) = 0 /\ MissingImage(err) THEN "pull"
                           ELSE "returned",
                    !.ret = IF err = "nil" THEN "nil"
                            ELSE IF Len(ctr.starts) = 0 /\ MissingImage(err) THEN @
                            ELSE IF Len(ctr.starts) = 0 THEN "failed to start container"
                            ELSE "failed to start container after image pull"]
    /\ UNCHANGED <<cfg, adapter, ctxDone, pc, keys, wpc, wi, errCh, scanIdx, Results,
                   ret, issued, created, okOps, errOps, gen, proc, scan, val>>

\* pullCmd := exec.Command("docker", "pull", imageName); pullCmd.Run()
ManualPull ==
    /\ ctr.call = "retry"
    /\ ctr.at = "pull"
    /\ \E ok \in BOOLEAN :
          ctr' = [ctr EXCEPT !.pulls = Append(@, ok),
                            !.at = IF ok THEN "new" ELSE "returned",
                            !.ret = IF ok THEN @ ELSE "manual docker pull failed"]
    /\ UNCHANGED <<cfg, adapter, ctxDone, pc, keys, wpc, wi, errCh, scanIdx, Results,
                   ret, issued, created, okOps, errOps, gen, proc, scan, val>>

(***************************************************************************)
(* mysql.go, postgres.go: the container name of startContainer, for two    *)
(* runs started on one host under one wall clock                           *)
(***************************************************************************)
\* containerNamePrefix
ContainerNamePrefix(database) ==
    IF database = "mysql" THEN "crud-bench-mysql" ELSE "crud-bench-postgres"

\* time.Now().Unix(): the whole seconds of an instant given in ticks
Unix(t) == t \div TicksPerSecond

\* fmt.Sprintf("%s-%d", containerNamePrefix, time.Now().Unix())
ContainerName(database, t) == <<ContainerNamePrefix(database), "-">> \o Itoa(Unix(t))

NameInputs ==
    {[NoCtr EXCEPT !.call = "names", !.backends = <<a, b>>, !.names = <<<<>>, <<>>>>] :
        a \in FactoryDatabases, b \in FactoryDatabases}

\* the wall clock advances
NameTick ==
    /\ ctr.call = "names"
    /\ ctr.now < MaxNow
    /\ ctr' = [ctr EXCEPT !.now = @ + 1]
    /\ UNCHANGED <<cfg, adapter, ctxDone, pc, keys, wpc, wi, errCh, scanIdx, Results,
                   ret, issued, created, okOps, errOps, gen, proc, scan, val>>

\* one of the two runs reaches startContainer and names its container
ContainerNameCall ==
    /\ ctr.call = "names"
    /\ \E r \in 1..2 :
          /\ ctr.names[r] = <<>>
          /\ ctr' = [ctr EXCEPT !.names[r] = ContainerName(ctr.backends[r], ctr.now)]
    /\ UNCHANGED <<cfg, adapter, ctxDone, pc, keys, wpc, wi, errCh, scanIdx, Results,
                   ret, issued, created, okOps, errOps, gen, proc, scan, val>>

(***************************************************************************)
(* internal/docker/container.go and the database adapters                  *)
(* (internal/databases/mysql/mysql.go; postgres is alike): the lifecycle   *)
(* of an adapter and of the container it starts.                           *)
(*                                                                         *)
(* The adapter record holds, next to the calls made on it: endpoint (""    *)
(* or a given one), db (a.db: "nil", "open", "closed"), container          *)
(* (a.container: "nil" or "set"), ID (the ID field of the Container object *)
(* startContainer made, "" until the daemon created the container) and     *)
(* docker, the daemon's state of that container: "absent", "created",      *)
(* "running", "exited" or "removed".                                       *)
(*                                                                         *)
(* Every call of the Docker client takes ctx and fails once ctx is         *)
(* cancelled. Under a live context the daemon stops and removes a          *)
(* container it has and answers "No such container" for one it has not;    *)
(* pulling, creating and starting can fail.                                *)
(***************************************************************************)
NoError == "nil"

\* mysql.NewAdapter / postgres.NewAdapter
NewAdapter(endpoint) ==
    [state |-> "Constructed", initCalls |-> 0, cleanupCalls |-> 0,
     endpoint |-> endpoint, db |-> "nil", container |-> "nil", ID |-> "",
     docker |-> "absent", initErr |-> NoError, cleanupRets |-> <<>>,
     stopRets |-> <<>>]

Out(a, err) == [a |-> a, err |-> err]

\* Client.ContainerStop(ctx, c.ID, &timeout); a container that is not
\* running is left as it is
ContainerStop(a, done) ==
    IF done THEN Out(a, "context canceled")
    ELSE IF a.docker \in {"absent", "removed"} THEN Out(a, "No such container")
    ELSE Out([a EXCEPT !.docker = "exited"], NoError)

\* Client.ContainerRemove(ctx, c.ID, {Force: true})
ContainerRemove(a, done) ==
    IF done THEN Out(a, "context canceled")
    ELSE IF a.docker \in {"absent", "removed"} THEN Out(a, "No such container")
    ELSE Out([a EXCEPT !.docker = "removed"], NoError)

\* Container.Stop
Stop(a, done) ==
    IF a.ID = "" THEN Out(a, NoError)
    ELSE LET stopped == ContainerStop(a, done)
         IN  IF stopped.err # NoError
             THEN Out(stopped.a, "failed to stop container")
             ELSE LET removed == ContainerRemove(stopped.a, done)
                  IN  IF removed.err # NoError
                      THEN Out(removed.a, "failed to remove container")
                      ELSE Out(removed.a, NoError)

\* Container.Start: ImagePull, ContainerCreate (which sets c.ID),
\* ContainerStart; every outcome
Start(a, done) ==
    IF done THEN {Out(a, "failed to pull Docker image")}
    ELSE {Out(a, "failed to pull Docker image"),
          Out(a, "failed to create container"),
          Out([a EXCEPT !.ID = "c1", !.docker = "created"], "failed to start container"),
          Out([a EXCEPT !.ID = "c1", !.docker = "running"], NoError)}

\* Container.WaitForHealthy: the probe succeeds before the deadline, the
\* container has stopped running, or the deadline passes
WaitForHealthy(a, done) ==
    IF done THEN {Out(a, "failed to inspect container")}
    ELSE {Out(a, NoError),
          Out([a EXCEPT !.docker = "exited"], "container is not running"),
          Out(a, "container health check timed out")}

\* a failed health check that leaves the container as it is
OnUnhealthyKeep(a, done) == a
\* _ = container.Stop(ctx) when WaitForHealthy failed
OnUnhealthy(a, done) == Stop(a, done).a

\* Adapter.startContainer: NewContainer, Start, WaitForHealthy
startContainer(a, done) ==
    {Out(a, "failed to create Docker client")}
    \cup UNION {IF s.err # NoError THEN {s}
                ELSE {IF h.err # NoError
                      THEN Out(OnUnhealthy(h.a, done), h.err)
                      ELSE h : h \in WaitForHealthy(s.a, done)} :
                s \in Start(a, done)}

\* Adapter.Initialize from sql.Open on: open, ping, a.db = db, schema
Connect(a, done) ==
    {Out(a, "failed to connect"), Out(a, "failed to ping")}
    \cup IF done THEN {}
         ELSE {Out([a EXCEPT !.db = "open"], "failed to create table"),
               Out([a EXCEPT !.db = "open"], NoError)}

\* Adapter.Initialize: every outcome
AdapterInitialize(a, done) ==
    IF a.endpoint = ""
    THEN UNION {IF c.err # NoError THEN {c}
                ELSE Connect([c.a EXCEPT !.container = "set"], done) :
                c \in startContainer(a, done)}
    ELSE Connect(a, done)

\* sql.DB.Close: closing a closed DB returns nil
Close(a) ==
    IF a.db = "closed" THEN {Out(a, NoError)}
    ELSE {Out([a EXCEPT !.db = "closed"], NoError), Out(a, "failed to close connection")}

\* Adapter.Cleanup: every outcome
AdapterCleanup(a, done) ==
    UNION {IF c.err # NoError THEN {c}
           ELSE IF c.a.container # "nil"
           THEN {LET s == Stop(c.a, done)
                 IN  IF s.err # NoError THEN Out(s.a, "failed to stop container") ELSE s}
           ELSE {c} :
           c \in IF a.db # "nil" THEN Close(a) ELSE {Out(a, NoError)}}

(***************************************************************************)
(* internal/databases/mysql/mysql.go, postgres/postgres.go: Adapter.Scan   *)
(* over a table of n rows.                                                 *)
(***************************************************************************)
Min(a, b) == IF a < b THEN a ELSE b
Max(a, b) == IF a > b THEN a ELSE b

Projections == {"ID", "FULL", "COUNT"}

\* the query text: SELECT id | * | COUNT(*) FROM bench_table, then LIMIT if
\* Limit > 0 and, inside that branch only, OFFSET if Start > 0
BuildQuery(sc) ==
    [aggregate |-> sc.Projection = "COUNT",
     limited |-> sc.Limit > 0,
     limit |-> sc.Limit,
     offset |-> IF sc.Limit > 0 /\ sc.Start > 0 THEN sc.Start ELSE 0]

\* the rows the database returns: the table's rows, or the one row of
\* COUNT(*), then OFFSET and LIMIT applied to that result
ResultRows(q, n) ==
    LET rows == IF q.aggregate THEN 1 ELSE n
        left == Max(0, rows - q.offset)
    IN  IF q.limited THEN Min(q.limit, left) ELSE left

\* Adapter.Scan: the count and the error it returns
AdapterScan(sc, n) ==
    IF sc.Projection \notin Projections
    THEN [count |-> 0, err |-> "unsupported projection type"]
    ELSE LET q == BuildQuery(sc)
         IN  IF q.aggregate
             THEN IF ResultRows(q, n) = 0
                  THEN [count |-> 0, err |-> "failed to execute count scan"]
                  ELSE [count |-> n, err |-> "nil"]
             ELSE [count |-> ResultRows(q, n), err |-> "nil"]

\* a caller of Adapter.Scan on its own
NoScan ==
    [rows |-> 0, Projection |-> "ID", Limit |-> 0, Start |-> 0, calls |-> 0,
     count |-> 0, err |-> "nil"]

ScanInputs ==
    UNION {{[NoScan EXCEPT !.rows = n, !.Projection = p, !.Limit = l, !.Start = st] :
               p \in Projections \cup {"KEYS"},
               l \in {0, 1, n \div 2, n}, st \in {0, 1, n \div 2, n}} :
           n \in 0..MaxRows}

AdapterScanCall ==
    /\ pc.at = "off"
    /\ scan.calls = 0
    /\ LET r == AdapterScan(scan, scan.rows)
       IN  scan' = [scan EXCEPT !.calls = 1, !.count = r.count, !.err = r.err]
    /\ UNCHANGED <<cfg, adapter, ctxDone, pc, keys, wpc, wi, errCh, scanIdx, Results,
                   ret, issued, created, okOps, errOps, gen, proc, val, ctr>>

(***************************************************************************)
(* The state after NewRunner, before Run.                                  *)
(***************************************************************************)
At(at, p) == [at |-> at, phase |-> p]

\* the process before main has exited, and the result file not written
Running == -1
NoFile == [written |-> FALSE, operations |-> <<>>]
Started0 == [exit |-> Running, file |-> NoFile]

InitRun ==
    /\ cfg \in Configs \cup RejectedConfigs \cup ZeroWorkerConfigs
    /\ adapter = NewAdapter("")
    /\ ctxDone = FALSE
    /\ pc = At("main", "")
    /\ proc = Started0
    /\ scan = NoScan
    /\ val = NoVal
    /\ ctr = NoCtr
    /\ keys = <<>>
    /\ wpc = [p \in CrudPhases |-> [w \in Workers |-> "idle"]]
    /\ wi = [p \in CrudPhases |-> [w \in Workers |-> 0]]
    /\ errCh = <<>>
    /\ scanIdx = 1
    /\ Results = <<>>
    /\ ret = [results |-> <<>>, err |-> Nil]
    /\ issued = [p \in CrudPhases |-> [i \in 0..(cfg.Samples - 1) |-> 0]]
    /\ created = {}
    /\ okOps = [p \in AllPhases |-> 0]
    /\ errOps = [p \in AllPhases |-> 0]

\* no run: only GenerateKeys is called
InitKeys ==
    /\ cfg = NoConfig
    /\ adapter = NewAdapter("")
    /\ ctxDone = FALSE
    /\ pc = At("off", "")
    /\ keys = <<>>
    /\ wpc = [p \in CrudPhases |-> [w \in Workers |-> "idle"]]
    /\ wi = [p \in CrudPhases |-> [w \in Workers |-> 0]]
    /\ errCh = <<>>
    /\ scanIdx = 1
    /\ Results = <<>>
    /\ ret = [results |-> <<>>, err |-> Nil]
    /\ issued = [p \in CrudPhases |-> [i \in 0..(cfg.Samples - 1) |-> 0]]
    /\ created = {}
    /\ okOps = [p \in AllPhases |-> 0]
    /\ errOps = [p \in AllPhases |-> 0]
    /\ \E in \in GenInputs :
          gen = [GenIdle EXCEPT !.keyType = in.keyType, !.count = in.count,
                                !.random = in.random]
    /\ proc = Started0
    /\ scan = NoScan
    /\ val = NoVal
    /\ ctr = NoCtr

\* no run: only the adapter and its container are used, with the endpoint
\* given or not
InitAdapter ==
    /\ cfg = NoConfig
    /\ \E e \in {"", "endpoint"} : adapter = NewAdapter(e)
    /\ ctxDone = FALSE
    /\ pc = At("off", "")
    /\ keys = <<>>
    /\ wpc = [p \in CrudPhases |-> [w \in Workers |-> "idle"]]
    /\ wi = [p \in CrudPhases |-> [w \in Workers |-> 0]]
    /\ errCh = <<>>
    /\ scanIdx = 1
    /\ Results = <<>>
    /\ ret = [results |-> <<>>, err |-> Nil]
    /\ issued = [p \in CrudPhases |-> [i \in 0..(cfg.Samples - 1) |-> 0]]
    /\ created = {}
    /\ okOps = [p \in AllPhases |-> 0]
    /\ errOps = [p \in AllPhases |-> 0]
    /\ gen = GenIdle
    /\ proc = Started0
    /\ scan = NoScan
    /\ val = NoVal
    /\ ctr = NoCtr

\* no run: only Adapter.Scan is called, on a table of some size
InitScan ==
    /\ cfg = NoConfig
    /\ adapter = NewAdapter("")
    /\ ctxDone = FALSE
    /\ pc = At("off", "")
    /\ keys = <<>>
    /\ wpc = [p \in CrudPhases |-> [w \in Workers |-> "idle"]]
    /\ wi = [p \in CrudPhases |-> [w \in Workers |-> 0]]
    /\ errCh = <<>>
    /\ scanIdx = 1
    /\ Results = <<>>
    /\ ret = [results |-> <<>>, err |-> Nil]
    /\ issued = [p \in CrudPhases |-> [i \in 0..(cfg.Samples - 1) |-> 0]]
    /\ created = {}
    /\ okOps = [p \in AllPhases |-> 0]
    /\ errOps = [p \in AllPhases |-> 0]
    /\ gen = GenIdle
    /\ proc = Started0
    /\ scan \in ScanInputs
    /\ val = NoVal
    /\ ctr = NoCtr

(***************************************************************************)
(* A caller of the adapter on its own: Initialize once, then Cleanup and   *)
(* Stop of the container object, while the container may stop running.     *)
(***************************************************************************)
nonAdapterVars == <<cfg, ctxDone, pc, keys, wpc, wi, errCh, scanIdx, Results,
                    ret, issued, created, okOps, errOps, gen, proc, scan, val, ctr>>

AdapterInitializeCall ==
    /\ pc.at = "off"
    /\ adapter.state = "Constructed"
    /\ \E r \in AdapterInitialize(adapter, ctxDone) :
          adapter' = [r.a EXCEPT !.initCalls = @ + 1,
                                 !.initErr = r.err,
                                 !.state = IF r.err = NoError THEN "Ready" ELSE "Failed"]
    /\ UNCHANGED nonAdapterVars

AdapterCleanupCall ==
    /\ pc.at = "off"
    /\ adapter.state # "Constructed"
    /\ adapter.cleanupCalls < MaxCleanups
    /\ \E r \in AdapterCleanup(adapter, ctxDone) :
          adapter' = [r.a EXCEPT !.cleanupCalls = @ + 1,
                                 !.cleanupRets = Append(@, r.err),
                                 !.state = IF @ = "Ready" THEN "Disposed" ELSE @]
    /\ UNCHANGED nonAdapterVars

\* c.Stop(ctx) on the Container object startContainer made; the call is kept
\* with the daemon's state of the container before it
ContainerStopCall ==
    /\ pc.at = "off"
    /\ adapter.state # "Constructed"
    /\ Len(adapter.stopRets) < MaxStops
    /\ LET r == Stop(adapter, ctxDone)
       IN  adapter' = [r.a EXCEPT !.stopRets =
                          Append(@, [ID |-> adapter.ID, docker |-> adapter.docker,
                                     err |-> r.err])]
    /\ UNCHANGED nonAdapterVars

\* the database process of the container ends: the container is no longer
\* running (what WaitForHealthy looks for in inspect.State.Running)
ContainerExits ==
    /\ pc.at = "off"
    /\ adapter.docker = "running"
    /\ adapter' = [adapter EXCEPT !.docker = "exited"]
    /\ UNCHANGED nonAdapterVars

(***************************************************************************)
(* internal/benchmark/benchmark.go: Runner.Run                             *)
(***************************************************************************)
NextPhase(p) ==
    CASE p = OperationCreate -> OperationRead
      [] p = OperationRead   -> OperationUpdate
      [] p = OperationUpdate -> OperationScan
      [] p = OperationScan   -> OperationDelete

\* Run going on whatever Initialize returned
InitializeFailedIgnored(err) == FALSE
\* if err := r.Adapter.Initialize(ctx); err != nil { return nil, err }
InitializeFailed(err) == err # Nil

\* a return that runs no deferred function
OnReturnNoDefer == "done"
\* where a return statement of Run leads once the deferred function is
\* registered: to the deferred Cleanup
OnReturn == "defer"

\* return results, err (after the defer statement)
Return(results, err) ==
    /\ ret' = [results |-> results, err |-> err]
    /\ pc' = At(OnReturn, pc.phase)

\* Run up to the defer statement: Adapter.Initialize succeeds or fails
Initialize ==
    /\ pc.at = "Initialize"
    /\ \E r \in AdapterInitialize(adapter, ctxDone) :
          LET err == IF r.err = NoError THEN Nil ELSE SetupError
          IN  /\ adapter' = [r.a EXCEPT
                                !.initCalls = @ + 1,
                                !.initErr = r.err,
                                !.state = IF err = Nil THEN "Ready" ELSE "Failed"]
              /\ IF InitializeFailed(err)
                 THEN /\ ret' = [results |-> <<>>, err |-> err]
                      /\ pc' = At("done", "")
                 ELSE /\ pc' = At("run", OperationCreate)
                      /\ UNCHANGED ret
    /\ UNCHANGED <<cfg, ctxDone, keys, wpc, wi, errCh, scanIdx, Results, issued,
                   created, okOps, errOps, gen, proc, scan, val, ctr>>

\* the deferred function: _ = r.Adapter.Cleanup(ctx); then Run has returned
Cleanup ==
    /\ pc.at = "defer"
    /\ \E r \in AdapterCleanup(adapter, ctxDone) :
          adapter' = [r.a EXCEPT !.cleanupCalls = @ + 1,
                                 !.cleanupRets = Append(@, r.err),
                                 !.state = "Disposed"]
    /\ pc' = At("done", pc.phase)
    /\ UNCHANGED <<cfg, ctxDone, keys, wpc, wi, errCh, scanIdx, Results, ret,
                   issued, created, okOps, errOps, gen, proc, scan, val, ctr>>

\* cmd/crud-bench/main.go: the signal goroutine calls cancel() while Run runs
Cancel ==
    /\ pc.at \notin {"off", "main", "done", "exit"}
    /\ ~ctxDone
    /\ ctxDone' = TRUE
    /\ UNCHANGED <<cfg, adapter, pc, keys, wpc, wi, errCh, scanIdx, Results, ret,
                   issued, created, okOps, errOps, gen, proc, scan, val, ctr>>

(***************************************************************************)
(* internal/benchmark/runner.go: the four CRUD phases                      *)
(***************************************************************************)
\* runCreate and runUpdate process the value template, runRead and
\* runDelete do not
UsesTemplate(p) == p \in {OperationCreate, OperationUpdate}

\* make(chan error, Clients*Threads) panics if the size is negative,
\* Samples / (Clients * Threads) if the divisor is zero
Panics == cfg.Clients * cfg.Threads <= 0

\* a phase function up to wg.Wait: keys, template, channel, the goroutines
\* (a goroutine whose start is past the samples returns at once); a panic
\* unwinds through Run, whose deferred Cleanup runs before the process dies
Launch(p) ==
    /\ pc = At("run", p)
    /\ \E r \in GenerateKeys(cfg.KeyType, cfg.Samples, cfg.Random) :
          IF r.err # "nil"
          THEN /\ Return(Results, KeysError(p))
               /\ UNCHANGED <<keys, wpc, wi, errCh>>
          ELSE IF UsesTemplate(p) /\ ProcessTemplate(cfg.Value) # "nil"
          THEN /\ Return(Results, TemplateError(p))
               /\ keys' = r.keys
               /\ UNCHANGED <<wpc, wi, errCh>>
          ELSE IF Panics
          THEN /\ Return(Results, PanicError(p))
               /\ keys' = r.keys
               /\ UNCHANGED <<wpc, wi, errCh>>
          ELSE /\ keys' = r.keys
               /\ errCh' = <<>>
               /\ wpc' = [wpc EXCEPT ![p] =
                            [w \in Workers |->
                                IF start(w) >= cfg.Samples THEN "done" ELSE "loop"]]
               /\ wi' = [wi EXCEPT ![p] = [w \in Workers |-> start(w)]]
               /\ pc' = At("wait", p)
               /\ UNCHANGED ret
    /\ UNCHANGED <<cfg, adapter, ctxDone, scanIdx, Results, issued, created,
                   okOps, errOps, gen, proc, scan, val, ctr>>

\* a select whose ctx.Done() case is never ready
DoneReadyNever == FALSE
\* case <-ctx.Done(): ready once the context has been cancelled; the select
\* has a default case, so it is taken exactly when it is ready
DoneReady == ctxDone

\* an error channel with one slot per client only
CapClients == cfg.Clients
\* errCh := make(chan error, Clients*Threads): the capacity of the channel
Cap == cfg.Clients * cfg.Threads

\* errCh <- err can proceed: nobody receives before wg.Wait has returned,
\* so a send goes through only while the buffer has room
CanSend == Len(errCh) < Cap

\* a goroutine at the select of its loop: the context is done, or it calls
\* the adapter with keys[i]
Select(p, w) ==
    /\ wpc[p][w] = "loop"
    /\ IF DoneReady
       THEN /\ CanSend
            /\ errCh' = Append(errCh, CtxError(p))
            /\ wpc' = [wpc EXCEPT ![p][w] = "done"]
            /\ UNCHANGED <<issued, created>>
       ELSE /\ wpc' = [wpc EXCEPT ![p][w] = "call"]
            /\ issued' = [issued EXCEPT ![p][wi[p][w]] = @ + 1]
            /\ created' = IF p = OperationCreate
                          THEN created \cup {keys[wi[p][w] + 1]}
                          ELSE created
            /\ UNCHANGED errCh
    /\ UNCHANGED <<cfg, adapter, ctxDone, pc, keys, wi, scanIdx, Results, ret,
                   okOps, errOps, gen, proc, scan, val, ctr>>

\* a loop that steps over every second index
PostSkip(i) == i + 2
\* the post statement of for i := start; i < end; i++
Post(i) == i + 1

\* the adapter call of a goroutine returns: nil, and the loop goes on or
\* ends; or an error, which is sent and the goroutine returns
Returned(p, w) ==
    /\ wpc[p][w] = "call"
    /\ \/ /\ okOps' = [okOps EXCEPT ![p] = @ + 1]
          /\ wi' = [wi EXCEPT ![p][w] = Post(@)]
          /\ wpc' = [wpc EXCEPT ![p][w] =
                        IF Post(wi[p][w]) < end(w) THEN "loop" ELSE "done"]
          /\ UNCHANGED <<errCh, errOps>>
       \/ /\ errOps' = [errOps EXCEPT ![p] = @ + 1]
          /\ CanSend
          /\ errCh' = Append(errCh, OpError(p, wi[p][w]))
          /\ wpc' = [wpc EXCEPT ![p][w] = "done"]
          /\ UNCHANGED <<wi, okOps>>
    /\ UNCHANGED <<cfg, adapter, ctxDone, pc, keys, scanIdx, Results, ret,
                   issued, created, gen, proc, scan, val, ctr>>

\* a wait that returns as soon as one goroutine has called wg.Done
WgWaitAny(p) == \E w \in Workers : wpc[p][w] = "done"
\* wg.Wait() returns: every goroutine of the phase has called wg.Done
WgWait(p) == \A w \in Workers : wpc[p][w] = "done"

\* a record put in front of the earlier ones
PrependResult(results, r) == <<r>> \o results
\* r.Results = append(r.Results, Result{...})
AppendResult(results, r) == Append(results, r)

\* a phase function that never looks at the channel
FirstErrorDropped(ch) == Nil
\* close(errCh); for err := range errCh { if err != nil { return err } }
FirstError(ch) == IF Len(ch) > 0 THEN Head(ch) ELSE Nil

\* a phase function from wg.Wait on: the first error is returned, or the
\* Result is recorded and Run calls the next phase (after runDelete, returns)
Join(p) ==
    /\ pc = At("wait", p)
    /\ WgWait(p)
    /\ IF FirstError(errCh) # Nil
       THEN /\ Return(Results, FirstError(errCh))
            /\ UNCHANGED Results
       ELSE /\ Results' = AppendResult(Results, Result(p, ResultName(p), cfg.Samples))
            /\ IF p = OperationDelete
               THEN Return(Results', Nil)
               ELSE /\ pc' = At("run", NextPhase(p))
                    /\ UNCHANGED ret
    /\ UNCHANGED <<cfg, adapter, ctxDone, keys, wpc, wi, errCh, scanIdx, issued,
                   created, okOps, errOps, gen, proc, scan, val, ctr>>

runCreate == Launch(OperationCreate) \/ Join(OperationCreate)
runRead == Launch(OperationRead) \/ Join(OperationRead)
runUpdate == Launch(OperationUpdate) \/ Join(OperationUpdate)
runDelete == Launch(OperationDelete) \/ Join(OperationDelete)

\* one step of one goroutine of a phase
Worker == \E p \in CrudPhases : \E w \in Workers : Select(p, w) \/ Returned(p, w)

\* an adapter call that never returns (a backend that stops answering): the
\* goroutine stays inside Adapter.Create, Read, Update or Delete
AdapterHangs ==
    /\ \E p \in CrudPhases : \E w \in Workers :
          /\ wpc[p][w] = "call"
          /\ wpc' = [wpc EXCEPT ![p][w] = "hung"]
    /\ UNCHANGED <<cfg, adapter, ctxDone, pc, keys, wi, errCh, scanIdx, Results, ret,
                   issued, created, okOps, errOps, gen, proc, scan, val, ctr>>

(***************************************************************************)
(* internal/benchmark/runner.go: runScans                                  *)
(***************************************************************************)
\* Adapter.Scan(ctx, scanConfig): an error (count -1 here) or a row count
ScanOutcomes == (-1)..cfg.Samples

\* a check of the count that does not look at the sign of Expect
ExpectFailedUnguarded(scanConfig, count) == count # scanConfig.Expect
\* if scanConfig.Expect > 0 && count != scanConfig.Expect
ExpectFailed(scanConfig, count) ==
    scanConfig.Expect > 0 /\ count # scanConfig.Expect

\* one iteration of the range over Config.Scans, or its end (return nil)
runScans ==
    /\ pc = At("run", OperationScan)
    /\ IF scanIdx > Len(cfg.Scans)
       THEN /\ pc' = At("run", OperationDelete)
            /\ UNCHANGED <<scanIdx, Results, ret, okOps, errOps>>
       ELSE \E count \in ScanOutcomes :
               IF count < 0
               THEN /\ errOps' = [errOps EXCEPT ![OperationScan] = @ + 1]
                    /\ Return(Results, OpError(OperationScan, scanIdx))
                    /\ UNCHANGED <<scanIdx, Results, okOps>>
               ELSE /\ okOps' = [okOps EXCEPT ![OperationScan] = @ + 1]
                    /\ UNCHANGED errOps
                    /\ LET scanConfig == cfg.Scans[scanIdx]
                       IN  IF ExpectFailed(scanConfig, count)
                           THEN /\ Return(Results, ExpectError(scanIdx))
                                /\ UNCHANGED <<scanIdx, Results>>
                           ELSE /\ Results' = AppendResult(Results,
                                       Result(OperationScan, scanConfig.Name, count))
                                /\ scanIdx' = scanIdx + 1
                                /\ UNCHANGED <<pc, ret>>
    /\ UNCHANGED <<cfg, adapter, ctxDone, keys, wpc, wi, errCh, issued, created,
                   gen, proc, scan, val, ctr>>

(***************************************************************************)
(* cmd/crud-bench/main.go: runBenchmark around Runner.Run                  *)
(***************************************************************************)
ExitSuccess == 0
\* os.Exit(1)
ExitFailure == 1
\* the exit status of a Go program that dies of a panic
ExitPanic == 2

\* runBenchmark up to Runner.Run: config.FromCommand, databases.NewAdapter
runBenchmark ==
    /\ pc.at = "main"
    /\ IF Validate(cfg) # "nil" \/ cfg.Database \notin FactoryDatabases
       THEN /\ proc' = [proc EXCEPT !.exit = ExitFailure]
            /\ pc' = At("exit", "")
       ELSE /\ pc' = At("Initialize", "")
            /\ UNCHANGED proc
    /\ UNCHANGED <<cfg, adapter, ctxDone, keys, wpc, wi, errCh, scanIdx, Results,
                   ret, issued, created, okOps, errOps, gen, scan, val, ctr>>

\* runBenchmark after Runner.Run returned: exit on an error; otherwise print
\* the results, write the result file (which can fail) and return. After a
\* panic Run does not return and the runtime ends the process.
Exit ==
    /\ pc.at = "done"
    /\ IF ret.err.kind = "panic"
       THEN proc' = [proc EXCEPT !.exit = ExitPanic]
       ELSE IF ret.err # Nil
       THEN proc' = [proc EXCEPT !.exit = ExitFailure]
       ELSE \E ok \in BOOLEAN :
               proc' = [exit |-> ExitSuccess,
                        file |-> IF ok THEN [written |-> TRUE, operations |-> ret.results]
                                 ELSE NoFile]
    /\ pc' = At("exit", pc.phase)
    /\ UNCHANGED <<cfg, adapter, ctxDone, keys, wpc, wi, errCh, scanIdx, Results,
                   ret, issued, created, okOps, errOps, gen, scan, val, ctr>>

(***************************************************************************)
(* Specifications.                                                         *)
(***************************************************************************)
Init == InitRun /\ gen = GenIdle

Next ==
    \/ runBenchmark
    \/ Initialize
    \/ runCreate
    \/ runRead
    \/ runUpdate
    \/ runScans
    \/ runDelete
    \/ Worker
    \/ Cancel
    \/ Cleanup
    \/ Exit

\* a run of the benchmark
Spec == Init /\ [][Next]_vars

\* a run of the benchmark with the default keys: integer, in sequential
\* order (the phases never read a key, they only pass it to the adapter)
InitSeq == Init /\ cfg.KeyType = "integer" /\ ~cfg.Random

SpecSeq == InitSeq /\ [][Next]_vars

NextAdapter ==
    \/ AdapterInitializeCall
    \/ AdapterCleanupCall
    \/ ContainerStopCall
    \/ ContainerExits

\* an adapter used on its own
SpecAdapter == InitAdapter /\ [][NextAdapter]_vars

NextScan == AdapterScanCall

\* Adapter.Scan called on its own
SpecScan == InitScan /\ [][NextScan]_vars

NextKeys == GenerateKeysCall

\* GenerateKeys called on its own
SpecKeys == InitKeys /\ [][NextKeys]_vars

InitValue ==
    /\ cfg = NoConfig
    /\ adapter = NewAdapter("")
    /\ ctxDone = FALSE
    /\ pc = At("off", "")
    /\ keys = <<>>
    /\ wpc = [p \in CrudPhases |-> [w \in Workers |-> "idle"]]
    /\ wi = [p \in CrudPhases |-> [w \in Workers |-> 0]]
    /\ errCh = <<>>
    /\ scanIdx = 1
    /\ Results = <<>>
    /\ ret = [results |-> <<>>, err |-> Nil]
    /\ issued = [p \in CrudPhases |-> [i \in 0..(cfg.Samples - 1) |-> 0]]
    /\ created = {}
    /\ okOps = [p \in AllPhases |-> 0]
    /\ errOps = [p \in AllPhases |-> 0]
    /\ gen = GenIdle
    /\ proc = Started0
    /\ scan = NoScan
    /\ val \in ValInputs
    /\ ctr = NoCtr

NextValue ==
    \/ ProcessTemplateCall
    \/ RenderRecord
    \/ RandomTextCall

\* the value generators called on their own
SpecValue == InitValue /\ [][NextValue]_vars

InitDocker ==
    /\ cfg = NoConfig
    /\ adapter = NewAdapter("")
    /\ ctxDone = FALSE
    /\ pc = At("off", "")
    /\ keys = <<>>
    /\ wpc = [p \in CrudPhases |-> [w \in Workers |-> "idle"]]
    /\ wi = [p \in CrudPhases |-> [w \in Workers |-> 0]]
    /\ errCh = <<>>
    /\ scanIdx = 1
    /\ Results = <<>>
    /\ ret = [results |-> <<>>, err |-> Nil]
    /\ issued = [p \in CrudPhases |-> [i \in 0..(cfg.Samples - 1) |-> 0]]
    /\ created = {}
    /\ okOps = [p \in AllPhases |-> 0]
    /\ errOps = [p \in AllPhases |-> 0]
    /\ gen = GenIdle
    /\ proc = Started0
    /\ scan = NoScan
    /\ val = NoVal
    /\ ctr \in CtrInputs

NextDocker ==
    \/ Tick
    \/ WaitStart
    \/ WaitLoop
    \/ WaitInspect
    \/ WaitCheck
    \/ WaitSleep
    \/ EnsureDockerImage
    \/ RetryNewContainer
    \/ RetryStart
    \/ ManualPull

\* the container helpers called on their own
SpecDocker == InitDocker /\ [][NextDocker]_vars

InitRender ==
    /\ cfg = NoConfig
    /\ adapter = NewAdapter("")
    /\ ctxDone = FALSE
    /\ pc = At("off", "")
    /\ keys = <<>>
    /\ wpc = [p \in CrudPhases |-> [w \in Workers |-> "idle"]]
    /\ wi = [p \in CrudPhases |-> [w \in Workers |-> 0]]
    /\ errCh = <<>>
    /\ scanIdx = 1
    /\ Results = <<>>
    /\ ret = [results |-> <<>>, err |-> Nil]
    /\ issued = [p \in CrudPhases |-> [i \in 0..(cfg.Samples - 1) |-> 0]]
    /\ created = {}
    /\ okOps = [p \in AllPhases |-> 0]
    /\ errOps = [p \in AllPhases |-> 0]
    /\ gen = GenIdle
    /\ proc = Started0
    /\ scan = NoScan
    /\ val \in RenderInputs
    /\ ctr = NoCtr

NextRender == RenderField \/ RenderStored

\* the goroutines of one phase rendering values
SpecRender == InitRender /\ [][NextRender]_vars

InitNames ==
    /\ cfg = NoConfig
    /\ adapter = NewAdapter("")
    /\ ctxDone = FALSE
    /\ pc = At("off", "")
    /\ keys = <<>>
    /\ wpc = [p \in CrudPhases |-> [w \in Workers |-> "idle"]]
    /\ wi = [p \in CrudPhases |-> [w \in Workers |-> 0]]
    /\ errCh = <<>>
    /\ scanIdx = 1
    /\ Results = <<>>
    /\ ret = [results |-> <<>>, err |-> Nil]
    /\ issued = [p \in CrudPhases |-> [i \in 0..(cfg.Samples - 1) |-> 0]]
    /\ created = {}
    /\ okOps = [p \in AllPhases |-> 0]
    /\ errOps = [p \in AllPhases |-> 0]
    /\ gen = GenIdle
    /\ proc = Started0
    /\ scan = NoScan
    /\ val = NoVal
    /\ ctr \in NameInputs

NextNames == NameTick \/ ContainerNameCall

\* two runs naming their containers
SpecNames == InitNames /\ [][NextNames]_vars

\* the steps of the program itself: every disjunct of Next but Cancel, which
\* is the user's interrupt
ProgramSteps ==
    \/ runBenchmark
    \/ Initialize
    \/ runCreate
    \/ runRead
    \/ runUpdate
    \/ runScans
    \/ runDelete
    \/ Worker
    \/ Cleanup
    \/ Exit

\* a run in which the main goroutine and the workers keep being scheduled
\* while they can take a step, and every adapter call returns; the
\* configuration has a value template that parses and at most one scan
InitFair == InitSeq /\ cfg.Value = "json" /\ Len(cfg.Scans) <= 1

SpecFair == InitFair /\ [][Next]_vars /\ WF_vars(ProgramSteps)

NextHang == Next \/ AdapterHangs

\* the same run over a backend whose calls may never return
SpecHang == InitSeq /\ [][NextHang]_vars /\ WF_vars(ProgramSteps)

(***************************************************************************)
(* Vocabulary of the properties.                                           *)
(***************************************************************************)
Samples == 0..(cfg.Samples - 1)

RECURSIVE SumUpTo(_, _)
SumUpTo(f, n) == IF n < 0 THEN 0 ELSE f[n] + SumUpTo(f, n - 1)

\* adapter calls of a phase started so far
Started(p) ==
    IF p \in CrudPhases THEN SumUpTo(issued[p], cfg.Samples - 1)
    ELSE okOps[p] + errOps[p]

\* adapter calls of a phase that have started and not returned
InFlight(p) == Started(p) - okOps[p] - errOps[p]

\* every goroutine a CRUD phase launched has returned
Joined(p) == \A w \in Workers : wpc[p][w] = "done"

\* no goroutine of a CRUD phase is running
Quiet(p) == \A w \in Workers : wpc[p][w] \in {"idle", "done"}

\* the records of a phase in a result set
RecordsOf(results, p) == {k \in 1..Len(results) : results[k].Operation = p}

\* a phase ran to its end without an error
Completed(p) ==
    /\ errOps[p] = 0
    /\ InFlight(p) = 0
    /\ IF p = OperationScan
       THEN Cardinality(RecordsOf(Results, p)) = Len(cfg.Scans)
       ELSE Joined(p) /\ Cardinality(RecordsOf(Results, p)) = 1

\* the keys a CRUD phase has passed to the adapter, while `keys` is its own
Passed(p) == {keys[i + 1] : i \in {j \in Samples : issued[p][j] > 0}}

\* a CRUD phase whose pool has joined with an empty error channel
JoinedClean(p) == pc = At("wait", p) /\ Joined(p) /\ errCh = <<>>

\* the number a sequence of decimal digits denotes
DigitValue(d) == CHOOSE v \in 0..9 : Digits[v + 1] = d
RECURSIVE Atoi(_)
Atoi(s) ==
    IF Len(s) = 0 THEN 0
    ELSE 10 * Atoi(SubSeq(s, 1, Len(s) - 1)) + DigitValue(s[Len(s)])

(***************************************************************************)
(* C1: the phases are strictly ordered. Once a phase is entered or an      *)
(* operation of it has begun, every earlier phase has run to its end: all  *)
(* its goroutines have returned, each of its operations has returned, none *)
(* with an error, and its result is recorded.                              *)
(***************************************************************************)
Entered(p) == Started(p) > 0 \/ (pc.phase = p /\ pc.at \in {"run", "wait"})

C1_PhaseOrder ==
    \A a \in 1..Len(Phases) : \A b \in (a + 1)..Len(Phases) :
        Entered(Phases[b]) => Completed(Phases[a])

\* the delete phase has begun in a run with several goroutines, several
\* samples and a scan
C1_Witness ==
    /\ Started(OperationDelete) > 0
    /\ cfg.Clients * cfg.Threads > 1
    /\ cfg.Samples > 1
    /\ Len(cfg.Scans) > 0

(***************************************************************************)
(* C2: the keys passed to Read, Update and Delete in a phase that joined   *)
(* without error are the keys that were passed to Create.                  *)
(***************************************************************************)
C2_SameKeys ==
    \A p \in CrudPhases \ {OperationCreate} :
        JoinedClean(p) => Passed(p) = created

(***************************************************************************)
(* C3: in a CRUD phase that joined without error every sample index was    *)
(* processed exactly once, and the worker ranges partition [0, N).         *)
(***************************************************************************)
C3_Partition ==
    \A p \in CrudPhases :
        JoinedClean(p) =>
            /\ \A i \in Samples : issued[p][i] = 1
            /\ \A i \in Samples :
                  Cardinality({w \in Workers : start(w) <= i /\ i < end(w)}) = 1

(***************************************************************************)
(* C4: GenerateKeys returns count keys; the indices are 0..count-1 in      *)
(* order when random is false and a permutation of them when it is true;   *)
(* for integer keys each index in [0, count) is the decimal value of       *)
(* exactly one key.                                                        *)
(***************************************************************************)
C4_GenerateKeys ==
    (gen.calls > 0 /\ gen.keyType \in ValidKeyTypes) =>
        /\ gen.err = "nil"
        /\ Len(gen.keys) = gen.count
        /\ Len(gen.indices) = gen.count
        /\ ~gen.random => \A k \in 1..gen.count : gen.indices[k] = k - 1
        /\ \A n \in 0..(gen.count - 1) :
              Cardinality({k \in 1..gen.count : gen.indices[k] = n}) = 1
        /\ gen.keyType = "integer" =>
              \A n \in 0..(gen.count - 1) :
                  Cardinality({k \in 1..gen.count : Atoi(gen.keys[k]) = n}) = 1

\* a shuffled sequence of the most integer keys that is not in order
C4_Witness ==
    /\ gen.calls = 1
    /\ gen.keyType = "integer"
    /\ gen.random
    /\ gen.count = MaxSamples
    /\ gen.indices[1] # 0
    /\ Len(gen.keys) = gen.count

(***************************************************************************)
(* C5: string keys are a function of the index: two calls of GenerateKeys  *)
(* with the same string key type, count and random = false return the same *)
(* keys.                                                                   *)
(***************************************************************************)
C5_StringKeysDeterministic ==
    (gen.calls = 2 /\ NewKeyGenerator(gen.keyType).kind = "string") =>
        gen.keys = gen.prevKeys

(***************************************************************************)
(* C6: in a run whose Initialize succeeded, Cleanup is called exactly      *)
(* once: never twice, never while a goroutine of a phase is running, and   *)
(* it has been called when Run has returned, whatever Run returns.         *)
(***************************************************************************)
InitializeSucceeded == adapter.state \in {"Ready", "Disposed"}

C6_CleanupOnce ==
    /\ adapter.cleanupCalls <= 1
    /\ adapter.cleanupCalls = 1 =>
          /\ InitializeSucceeded
          /\ \A p \in CrudPhases : Quiet(p) /\ InFlight(p) = 0
    /\ (pc.at = "done" /\ InitializeSucceeded) => adapter.cleanupCalls = 1

\* Run has returned the context's error from a phase whose goroutines had
\* started operations, and Cleanup has been called
C6_Witness ==
    /\ pc.at = "done"
    /\ ret.err.kind = "ctx"
    /\ okOps[ret.err.phase] > 0
    /\ adapter.cleanupCalls = 1

(***************************************************************************)
(* C7: if Initialize returns an error, no operation is issued and Cleanup  *)
(* is called.                                                              *)
(***************************************************************************)
C7_CleanupAfterFailedInitialize ==
    (pc.at = "done" /\ adapter.state = "Failed") =>
        /\ \A p \in AllPhases : Started(p) = 0
        /\ adapter.cleanupCalls = 1

(***************************************************************************)
(* C8: every adapter operation runs between a successful Initialize and    *)
(* Cleanup: an operation in flight or about to be issued finds the adapter *)
(* initialized and not cleaned up, operations have only been issued after  *)
(* Initialize succeeded, and once Cleanup has been called no goroutine is  *)
(* left to issue one.                                                      *)
(***************************************************************************)
C8_OperationsWhileReady ==
    /\ \A p \in CrudPhases :
          (\E w \in Workers : wpc[p][w] \in {"loop", "call"}) => adapter.state = "Ready"
    /\ pc = At("run", OperationScan) => adapter.state = "Ready"
    /\ \A p \in AllPhases : Started(p) > 0 => InitializeSucceeded
    /\ adapter.cleanupCalls > 0 =>
          \A p \in AllPhases : InFlight(p) = 0 /\ (p \in CrudPhases => Quiet(p))

\* all five phases have issued operations and Cleanup has been called
C8_Witness ==
    /\ adapter.state = "Disposed"
    /\ \A p \in AllPhases : okOps[p] > 0

(***************************************************************************)
(* C9: once an adapter operation of a CRUD phase has returned an error, no *)
(* operation of a later phase is ever issued and no later phase is         *)
(* entered; when Run has returned it has returned an error sent in that    *)
(* phase (the operation's error when it was the only one) and Cleanup has  *)
(* been called.                                                            *)
(***************************************************************************)
After(p) == {q \in AllPhases :
                \E a \in 1..Len(Phases) : \E b \in (a + 1)..Len(Phases) :
                    Phases[a] = p /\ Phases[b] = q}

C9_ErrorSkipsLaterPhases ==
    \A p \in CrudPhases :
        errOps[p] > 0 =>
            /\ \A q \in After(p) :
                  /\ Started(q) = 0
                  /\ pc.phase # q
                  /\ q \in CrudPhases => \A w \in Workers : wpc[q][w] = "idle"
            /\ pc.at = "done" =>
                  /\ ret.err \in {errCh[k] : k \in 1..Len(errCh)}
                  /\ ret.err.phase = p
                  /\ ret.err.kind \in {"backend", "ctx"}
                  /\ Len(errCh) = 1 => ret.err.kind = "backend"
                  /\ adapter.cleanupCalls = 1

\* Run has returned the error of a read while another goroutine's read
\* succeeded
C9_Witness ==
    /\ pc.at = "done"
    /\ errOps[OperationRead] > 0
    /\ okOps[OperationRead] > 0
    /\ ret.err.kind = "backend"
    /\ adapter.cleanupCalls = 1

(***************************************************************************)
(* C10: when Run returns an operation's error from a CRUD phase, the       *)
(* returned results hold a record of that phase with the error and the     *)
(* number of operations that succeeded in it.                              *)
(***************************************************************************)
C10_FailedPhaseRecorded ==
    (pc.at = "done" /\ ret.err.kind = "backend" /\ ret.err.phase \in CrudPhases) =>
        \E k \in RecordsOf(ret.results, ret.err.phase) :
            /\ ret.results[k].Error # Nil
            /\ ret.results[k].Count = okOps[ret.err.phase]

(***************************************************************************)
(* C11: an operation error in one goroutine stops the others: once an      *)
(* adapter operation of a CRUD phase has returned an error, no goroutine   *)
(* of that phase starts another operation.                                 *)
(***************************************************************************)
C11_ErrorStopsOtherWorkers ==
    [][\A p \in CrudPhases : errOps[p] > 0 => issued'[p] = issued[p]]_vars

(***************************************************************************)
(* C12: cancellation during a CRUD phase. As stated: from the moment the   *)
(* context is cancelled while a CRUD phase waits for its goroutines, no    *)
(* goroutine starts another operation, Run never moves to another phase,   *)
(* and when the phase function returns it returns an error.                *)
(***************************************************************************)
C12_CancelEndsPhase ==
    [][\A p \in CrudPhases :
          (ctxDone /\ pc = At("wait", p)) =>
              /\ issued' = issued
              /\ pc'.phase = p
              /\ pc'.at # "wait" => ret'.err # Nil]_vars

(***************************************************************************)
(* C12 as amended: after the context is cancelled no goroutine starts      *)
(* another operation; and when a goroutine of the CRUD phase still has     *)
(* operations left (or an error has been sent) under a cancelled context,  *)
(* this stays so until the phase function returns an error of that phase,  *)
(* and after Run has returned the context's error no later phase has been  *)
(* entered.                                                                *)
(***************************************************************************)
\* a goroutine that has operations left: it is at its select, or in a call
\* that is not the last of its range
Remaining(p, w) ==
    \/ wpc[p][w] = "loop"
    \/ wpc[p][w] = "call" /\ wi[p][w] + 1 < end(w)

CancelledWithWork(p) ==
    /\ ctxDone
    /\ pc = At("wait", p)
    /\ errCh # <<>> \/ \E w \in Workers : Remaining(p, w)

NotEntered(q) ==
    /\ ~Entered(q)
    /\ q \in CrudPhases => \A w \in Workers : wpc[q][w] = "idle"

C12_CancelWithWorkEndsPhase ==
    /\ [][/\ ctxDone => issued' = issued
          /\ \A p \in CrudPhases :
                CancelledWithWork(p) =>
                    \/ CancelledWithWork(p)'
                    \/ /\ pc' = At("defer", p)
                       /\ ret'.err \in {errCh[k] : k \in 1..Len(errCh)}
                       /\ ret'.err.kind \in {"ctx", "backend"}
                       /\ ret'.err.phase = p]_vars
    /\ [](\A p \in CrudPhases :
            (pc.at \in {"defer", "done", "exit"} /\ ret.err.kind = "ctx"
                                                    /\ ret.err.phase = p) =>
                \A q \in After(p) : NotEntered(q))

\* Run has returned the context's error from a phase in which an operation
\* had succeeded and an index was left unprocessed
C12_Witness ==
    /\ pc.at = "done"
    /\ ret.err.kind = "ctx"
    /\ ret.err.phase \in CrudPhases
    /\ okOps[ret.err.phase] > 0
    /\ \E w \in Workers : start(w) <= wi[ret.err.phase][w] /\ wi[ret.err.phase][w] < end(w)
    /\ \E i \in Samples : issued[ret.err.phase][i] = 0

(***************************************************************************)
(* C13: the scan phase observes cancellation at every operation boundary:  *)
(* once the context is cancelled no further Adapter.Scan call is started,  *)
(* and when scan specifications remain the scan phase returns an error.    *)
(***************************************************************************)
C13_ScansObserveCancel ==
    [][(ctxDone /\ pc = At("run", OperationScan)) =>
          /\ Started(OperationScan)' = Started(OperationScan)
          /\ scanIdx <= Len(cfg.Scans) =>
                (pc' = At("defer", OperationScan) /\ ret'.err # Nil)]_vars

(***************************************************************************)
(* C14: Cleanup is idempotent: a call of Cleanup that follows a call which *)
(* returned nil returns nil too.                                           *)
(***************************************************************************)
C14_CleanupIdempotent ==
    \A k \in 2..Len(adapter.cleanupRets) :
        adapter.cleanupRets[k - 1] = NoError => adapter.cleanupRets[k] = NoError

(***************************************************************************)
(* C15: Container.Stop returns nil when the container it refers to is      *)
(* missing: never created, already stopped or already removed.             *)
(***************************************************************************)
C15_StopOfMissingContainer ==
    \A k \in 1..Len(adapter.stopRets) :
        (adapter.stopRets[k].ID = "" \/ adapter.stopRets[k].docker \in {"exited", "removed"})
            => adapter.stopRets[k].err = NoError

(***************************************************************************)
(* C16: a container the adapter created during Initialize has been stopped *)
(* and removed when Run has returned, whatever the outcome of the run.     *)
(***************************************************************************)
C16_ContainerRemovedAtEnd ==
    (pc.at = "done" /\ adapter.docker # "absent") => adapter.docker = "removed"

(***************************************************************************)
(* C17: when the health probe does not succeed before the deadline, the    *)
(* container has been stopped and removed when startContainer returns,     *)
(* Initialize fails with a setup error, the adapter holds no container and *)
(* no phase runs.                                                          *)
(***************************************************************************)
HealthTimedOut == adapter.initErr = "container health check timed out"

ConfigRejected == Validate(cfg) # "nil" \/ cfg.Database \notin FactoryDatabases

C18_ExitCodes ==
    pc.at = "exit" =>
        proc.exit = IF ConfigRejected THEN 1
                    ELSE IF ret.err.kind = "setup" THEN 2
                    ELSE IF ret.err # Nil THEN 3
                    ELSE 0

(***************************************************************************)
(* C19: when the run was cancelled in the middle of a CRUD phase, at the   *)
(* exit of the process the goroutines have returned, Cleanup has been      *)
(* called, and the result file has been written with the results of the    *)
(* phases completed before and a record of the interrupted phase that      *)
(* carries its error.                                                      *)
(***************************************************************************)
C19_InterruptedRunWritesResults ==
    (pc.at = "exit" /\ ret.err.kind = "ctx" /\ ret.err.phase \in CrudPhases) =>
        /\ \A p \in CrudPhases : Quiet(p)
        /\ adapter.cleanupCalls = 1
        /\ proc.file.written
        /\ \A k \in 1..Len(Results) :
              k <= Len(proc.file.operations) /\ proc.file.operations[k] = Results[k]
        /\ \E k \in RecordsOf(proc.file.operations, ret.err.phase) :
              proc.file.operations[k].Error # Nil

(***************************************************************************)
(* C20: over a table of N rows, for each projection FULL, ID and COUNT and *)
(* limit, start in {0, 1, N/2, N}, Adapter.Scan returns no error and the   *)
(* count min(limit, max(0, N - start)) when limit > 0 and N - start when   *)
(* limit = 0.                                                              *)
(***************************************************************************)
C20_ScanCount ==
    (scan.calls = 1 /\ scan.Projection \in Projections) =>
        /\ scan.err = "nil"
        /\ scan.count = IF scan.Limit > 0
                        THEN Min(scan.Limit, Max(0, scan.rows - scan.Start))
                        ELSE scan.rows - scan.Start

(***************************************************************************)
(* C21: expect is a post-condition exactly when positive. A scan fails on  *)
(* its count only when its expect is positive and the count differs; then  *)
(* no Result is recorded for it, no later scan and no delete is run, and   *)
(* the scans before it keep their Results. A scan that is recorded has a   *)
(* count equal to its expect when that is positive, and any count when it  *)
(* is not.                                                                 *)
(***************************************************************************)
ScanRecords(results) ==
    SelectSeq(results, LAMBDA r : r.Operation = OperationScan)

Rendered(fields) == {x.data : x \in {y \in ProcessFields(fields) : ~y.panic}}

C22_RenderedPerRecord ==
    val.at = "templated" =>
        /\ val.valueTemplate = val.template.fields
        /\ Rendered(val.valueTemplate) = Rendered(val.template.fields)
        /\ \A k \in 1..Len(val.records) : val.records[k] \in Rendered(val.template.fields)

(***************************************************************************)
(* C23: a value template with an inverted range directive (A > B in        *)
(* int:A..B, string:A..B or text:A..B) is rejected with an error value     *)
(* when the template is parsed: processing it ends in an error, never in a *)
(* crash and never in a rendered value.                                    *)
(***************************************************************************)
Inverted(l) == l.type = "literal" /\ l.form = "range" /\ l.a > l.b
HasInverted(template) ==
    template.json /\ \E k \in DOMAIN template.fields : Inverted(template.fields[k])

C23_InvertedRangeRejected ==
    (val.call = "template" /\ HasInverted(val.template) /\ val.at # "start") =>
        /\ val.at = "failed"
        /\ val.err # "nil"
        /\ val.records = <<>>

(***************************************************************************)
(* C30: a text:N leaf renders a string of total length exactly N, for      *)
(* every N >= 1 and every choice of the random word lengths in 2..10: the  *)
(* words are joined by single spaces and the last word is cut so that the  *)
(* total is N, never N - 1.                                                *)
(***************************************************************************)
C30_TextLength ==
    (val.call = "text" /\ val.at = "returned" /\ val.length >= 1) =>
        JoinLen(val.words) = val.length

(***************************************************************************)
(* C24: every configuration error, an unparseable value template included, *)
(* is reported before any adapter is created or initialized: in a run      *)
(* whose configuration is rejected or whose value template is not valid    *)
(* JSON, Adapter.Initialize is never called and no container is started.   *)
(***************************************************************************)
C24_ConfigErrorsBeforeAdapter ==
    (ConfigRejected \/ ProcessTemplate(cfg.Value) # "nil") =>
        /\ adapter.initCalls = 0
        /\ adapter.docker = "absent"
        /\ adapter.state = "Constructed"

(***************************************************************************)
(* C25: the counts of clients and threads are validated as positive: a     *)
(* configuration with clients <= 0 or threads <= 0 is rejected by the      *)
(* validation of the configuration, so every phase runs with at least one  *)
(* worker and never divides by zero or launches zero workers.              *)
(***************************************************************************)
C25_WorkersPositive ==
    /\ (cfg.Clients <= 0 \/ cfg.Threads <= 0) =>
          /\ pc.at \in {"main", "exit"}
          /\ adapter.initCalls = 0
          /\ proc.exit \in {Running, ExitFailure}
    /\ ret.err.kind # "panic"
    /\ pc.at \in {"run", "wait"} => Workers # {}

(***************************************************************************)
(* C26: with N samples and W = Clients * Threads workers the batch is      *)
(* floor(N / W), and 1 when W > N. In that case exactly N workers own one  *)
(* index each and process it, and the other W - N workers issue no adapter *)
(* operation and return at once without reporting an error. A worker never *)
(* processes an index outside its own range.                               *)
(***************************************************************************)
Owners == {w \in Workers : start(w) < cfg.Samples}

C26_BatchSize ==
    \A p \in CrudPhases :
        pc = At("wait", p) =>
            /\ batchSize = IF cfg.Clients * cfg.Threads > cfg.Samples THEN 1
                           ELSE cfg.Samples \div (cfg.Clients * cfg.Threads)
            /\ \A w \in Workers :
                  /\ wpc[p][w] \in {"loop", "call"} =>
                        start(w) <= wi[p][w] /\ wi[p][w] < end(w)
                  /\ start(w) <= wi[p][w]
                  /\ wi[p][w] <= Max(start(w), end(w))
            /\ \A i \in Samples :
                  /\ issued[p][i] <= 1
                  /\ issued[p][i] = 1 =>
                        \E w \in Workers : start(w) <= i /\ i < end(w) /\ i <= wi[p][w]
            /\ cfg.Clients * cfg.Threads > cfg.Samples =>
                  /\ Cardinality(Owners) = cfg.Samples
                  /\ \A w \in Owners : end(w) = start(w) + 1
                  /\ \A w \in Workers \ Owners :
                        wpc[p][w] = "done" /\ wi[p][w] = start(w)
                  /\ Len(errCh) <= Cardinality({w \in Owners : wpc[p][w] = "done"})
                  /\ JoinedClean(p) =>
                        \A w \in Owners :
                            wi[p][w] = start(w) + 1 /\ issued[p][start(w)] = 1

C26_Witness ==
    /\ JoinedClean(OperationCreate)
    /\ cfg.Clients * cfg.Threads > cfg.Samples
    /\ cfg.Samples = MaxSamples
    /\ \E w \in Workers : start(w) >= cfg.Samples

(***************************************************************************)
(* C27: within one worker the adapter operations of a phase are issued one *)
(* after the other, in strictly increasing index order over the worker's   *)
(* range: an operation starts only when the worker is between calls, on    *)
(* the worker's current index, and the index moves only when the call      *)
(* returned, to the next index.                                            *)
(***************************************************************************)
C27_WorkerOrder ==
    [][\A p \in CrudPhases : \A w \in Workers :
          /\ (wpc[p][w] # "call" /\ wpc'[p][w] = "call") =>
                /\ wpc[p][w] = "loop"
                /\ wi'[p][w] = wi[p][w]
                /\ issued'[p][wi[p][w]] = issued[p][wi[p][w]] + 1
                /\ \A i \in Samples \ {wi[p][w]} : issued'[p][i] = issued[p][i]
                /\ \A i \in start(w)..(wi[p][w] - 1) : issued[p][i] = 1
          /\ wi'[p][w] # wi[p][w] =>
                \/ wpc[p][w] = "idle" /\ wi'[p][w] = start(w)
                \/ /\ wpc[p][w] = "call"
                   /\ wpc'[p][w] # "call"
                   /\ wi'[p][w] = wi[p][w] + 1]_vars

C27_Witness ==
    \E w \in Workers :
        /\ wpc[OperationUpdate][w] = "call"
        /\ wi[OperationUpdate][w] = start(w) + 2
        /\ okOps[OperationUpdate] = 2

(***************************************************************************)
(* C28 as stated: WaitForHealthy polls the probe until the probe succeeds  *)
(* or the deadline passes: it returns nil if and only if some probe        *)
(* invocation succeeded, it returns an error only once the deadline has    *)
(* passed, and it never invokes the probe after the deadline.              *)
(***************************************************************************)
Probes == {ctr.probes[k] : k \in 1..Len(ctr.probes)}

C28_PollsUntilDeadline ==
    ctr.call = "health" =>
        /\ ctr.at = "returned" =>
              /\ ctr.ret = "nil" <=> \E q \in Probes : q.ok
              /\ ctr.ret # "nil" => ctr.now >= ctr.deadline
        /\ \A q \in Probes : q.time <= ctr.deadline

(***************************************************************************)
(* C28: WaitForHealthy polls the probe, each time after a check that the   *)
(* deadline is not reached and that the container is running. It returns   *)
(* nil if and only if a probe invocation succeeded, which is then the last *)
(* one made. It returns an error when a check of the deadline finds it     *)
(* reached, or, before the deadline, as soon as the container cannot be    *)
(* inspected or is not running. The probe is invoked only after a check    *)
(* that found time left before the deadline, and only if one was supplied. *)
(***************************************************************************)
C28_WaitForHealthy ==
    ctr.call = "health" =>
        /\ \A k \in 1..Len(ctr.probes) :
              /\ ctr.probes[k].head < ctr.deadline
              /\ ctr.probes[k].head <= ctr.probes[k].time
              /\ ctr.probes[k].ok => k = Len(ctr.probes) /\ ctr.at = "returned"
        /\ ~ctr.checkFunc => ctr.probes = <<>>
        /\ ctr.at = "returned" =>
              /\ ctr.ret = "nil" <=> \E q \in Probes : q.ok
              /\ ctr.ret = "container health check timed out" => ctr.head >= ctr.deadline
              /\ ctr.ret \notin {"nil", "container health check timed out"} =>
                    /\ ctr.ret \in {"failed to inspect container", "container is not running"}
                    /\ ctr.head < ctr.deadline

C28_Witness ==
    /\ ctr.call = "health"
    /\ ctr.at = "returned"
    /\ ctr.ret = "nil"
    /\ Len(ctr.probes) = 2
    /\ ~ctr.probes[1].ok
    /\ ctr.probes[2].time > ctr.probes[2].head

Hung(p) == pc = At("wait", p) /\ \E w \in Workers : wpc[p][w] = "hung"

C31_PhaseTimeout ==
    \A p \in CrudPhases :
        /\ Hung(p) ~> ctxDone
        /\ pc = At("wait", p) ~> pc # At("wait", p)

(***************************************************************************)
(* C32: two runs of the same backend started concurrently get distinct     *)
(* container names: the name derived from the wall clock differs between   *)
(* any two runs, two runs started within the same second included.         *)
(***************************************************************************)
C32_DistinctNames ==
    (/\ ctr.call = "names"
     /\ ctr.backends[1] = ctr.backends[2]
     /\ ctr.names[1] # <<>>
     /\ ctr.names[2] # <<>>) =>
        ctr.names[1] # ctr.names[2]

(***************************************************************************)
(* C33: concurrent workers of a create or update phase never write to a    *)
(* data structure shared with another worker while rendering values:       *)
(* rendering a record's value, nested objects and arrays included, mutates *)
(* only the worker's own freshly allocated document, so no two goroutines  *)
(* write the same map or slice at once.                                    *)
(***************************************************************************)
C33_NoSharedWrites ==
    val.call = "render" =>
        /\ \A k \in 1..Len(val.kinds) : Cardinality(Writers(k)) <= 1
        /\ ~val.fatal

(***************************************************************************)
(* C34: the error channel of a phase never blocks a worker and the phase   *)
(* always joins. Each worker sends at most one error and then returns, and *)
(* the capacity is Clients * Threads, so whenever a worker is still        *)
(* running the buffer has room for its error; errors are sent only while   *)
(* the phase function waits, which it leaves (closing the channel) only    *)
(* when every worker has returned; and, every adapter call returning, the  *)
(* wait always ends.                                                       *)
(***************************************************************************)
Unreturned(p) == {w \in Workers : wpc[p][w] # "done"}

C34_ErrorChannel ==
    /\ [](\A p \in CrudPhases :
            pc = At("wait", p) =>
                /\ Cap = Cardinality(Workers)
                /\ Len(errCh) + Cardinality(Unreturned(p)) <= Cap
                /\ Unreturned(p) # {} => CanSend)
    /\ [][\A p \in CrudPhases :
            /\ errCh' # errCh =>
                  \/ pc.at = "run" /\ errCh' = <<>>
                  \/ /\ pc = At("wait", p) => pc' = pc
                     /\ pc.at = "wait"
                     /\ Len(errCh') = Len(errCh) + 1
                     /\ pc = At("wait", p) =>
                           Cardinality(Unreturned(p)') = Cardinality(Unreturned(p)) - 1
            /\ (pc = At("wait", p) /\ pc' # pc) => Unreturned(p) = {}]_vars
    /\ \A p \in CrudPhases : pc = At("wait", p) ~> pc # At("wait", p)

C34_Witness ==
    /\ pc = At("wait", OperationRead)
    /\ Unreturned(OperationRead) = {}
    /\ Cap >= 2
    /\ Len(errCh) = Cap
    /\ \E k \in 1..Len(errCh) : errCh[k].kind = "ctx"
    /\ \E k \in 1..Len(errCh) : errCh[k].kind = "backend"

(***************************************************************************)
(* C35: the sample count recorded in the Result of a CRUD phase equals the *)
(* number of adapter operations performed successfully in that phase, for  *)
(* every N, C and T, also when N is not a multiple of C * T.               *)
(***************************************************************************)
C35_CountIsPerformed ==
    \A k \in 1..Len(Results) :
        Results[k].Operation \in CrudPhases =>
            Results[k].Count = okOps[Results[k].Operation]

(***************************************************************************)
(* C36: at every point of a run Runner.Results is a prefix of the sequence *)
(* CREATE(create_all), READ(read_all), UPDATE(update_all), one SCAN per    *)
(* configured scan in order, DELETE(delete_all). It is only appended to,   *)
(* by the coordinating goroutine once the workers of the phase have        *)
(* joined; it holds at most one record per CRUD phase, and a record only   *)
(* for a phase or scan that completed without error.                       *)
(***************************************************************************)
ResultKey(r) == <<r.Operation, r.Name>>

ExpectedKeys ==
    <<<<OperationCreate, "create_all">>, <<OperationRead, "read_all">>,
      <<OperationUpdate, "update_all">>>>
    \o [j \in 1..Len(cfg.Scans) |-> <<OperationScan, cfg.Scans[j].Name>>]
    \o <<<<OperationDelete, "delete_all">>>>

C36_ResultsPrefix ==
    /\ [](/\ Len(Results) <= Len(ExpectedKeys)
          /\ \A k \in 1..Len(Results) :
                /\ ResultKey(Results[k]) = ExpectedKeys[k]
                /\ Results[k].Error = Nil
          /\ \A p \in CrudPhases :
                /\ Cardinality(RecordsOf(Results, p)) <= 1
                /\ RecordsOf(Results, p) # {} =>
                      /\ errOps[p] = 0
                      /\ InFlight(p) = 0
                      /\ \A w \in Workers : wpc[p][w] = "done"
          /\ Len(ScanRecords(Results)) <= okOps[OperationScan])
    /\ [][Results' # Results =>
            /\ Len(Results') = Len(Results) + 1
            /\ SubSeq(Results', 1, Len(Results)) = Results
            /\ pc.at \in {"wait", "run"}
            /\ pc.at = "wait" =>
                  /\ pc.phase \in CrudPhases
                  /\ Results'[Len(Results')].Operation = pc.phase
                  /\ \A w \in Workers : wpc[pc.phase][w] = "done"
                  /\ errCh = <<>>
            /\ pc.at = "run" =>
                  /\ pc.phase = OperationScan
                  /\ Results'[Len(Results')].Operation = OperationScan
                  /\ okOps'[OperationScan] = okOps[OperationScan] + 1]_vars

C36_Witness ==
    /\ pc.at = "done"
    /\ ret.err = Nil
    /\ Len(cfg.Scans) = MaxScans
    /\ Len(Results) = 4 + MaxScans
    /\ cfg.Clients * cfg.Threads > 1

(***************************************************************************)
(* C37: Cleanup can tear the container down after a cancellation: when the *)
(* run was cancelled by an interrupt, Cleanup is given a context that is   *)
(* not already cancelled, so the stop and the removal of the container it  *)
(* issues are not aborted by the cancellation that ended the phase. Once   *)
(* the connection is closed, the container of a cancelled run is removed   *)
(* and Cleanup returns nil.                                                *)
(***************************************************************************)
CleanedUp ==
    /\ pc.at \in {"done", "exit"}
    /\ adapter.cleanupCalls = 1
    /\ adapter.db = "closed"
    /\ adapter.container # "nil"

C37_CleanupAfterCancel ==
    (CleanedUp /\ ctxDone) =>
        /\ adapter.docker = "removed"
        /\ adapter.cleanupRets = <<NoError>>

(***************************************************************************)
(* C38: Adapter.Cleanup releases every resource it owns even when an       *)
(* earlier release step fails: if closing the database connection returns  *)
(* an error, the container the adapter manages is still stopped and        *)
(* removed.                                                                *)
(***************************************************************************)
C38_CleanupReleasesAll ==
    \A k \in 1..Len(adapter.cleanupRets) :
        (/\ adapter.cleanupRets[k] = "failed to close connection"
         /\ adapter.container # "nil"
         /\ ~ctxDone) =>
            adapter.docker = "removed"

(***************************************************************************)
(* C39: every backend identifier that Config.Validate accepts can be       *)
(* constructed by the adapter factory: for a configuration that passed     *)
(* validation, databases.NewAdapter returns an adapter, not an             *)
(* unsupported-database error, and the run goes on to Initialize.          *)
(***************************************************************************)
C39_ValidDatabasesConstructible ==
    (Validate(cfg) = "nil" /\ pc.at \notin {"off", "main"}) =>
        /\ cfg.Database \in FactoryDatabases
        /\ pc.at = "exit" => adapter.initCalls > 0

====
